---- MODULE Spec2Model ----
(***************************************************************************)
(* Model of the authorization core of better-auth-plugins                  *)
(* (packages/plugins/authorization): the priority sorter, the template     *)
(* interpolator, the CASL ability built from the sorted rules and the      *)
(* check-permission handler; the context sanitizer; the adapter operations *)
(* that assign, delete and fetch permissions on the tables of the plugin;  *)
(* and the middleware of its routes.                                       *)
(*                                                                         *)
(* JavaScript values are modelled as follows.                              *)
(*   - a string is a sequence of symbols; a symbol is one character ("{",  *)
(*     "}", ".", "&", ...) or an indivisible run of word characters        *)
(*     ("user", "id", "123");                                              *)
(*   - an optional property is Undefined or Some(v);                       *)
(*   - an object is a function from property names to values;              *)
(*   - a Date is its getTime() number.                                     *)
(***************************************************************************)
EXTENDS Integers, Sequences, FiniteSets, TLC

VARIABLES
    pc,             \* position of the scenario being run
    permissions,    \* the CaslPermission[] array handed to sortPermissionsByPriority (sorted in place)
    fetched,        \* the array as it was concatenated by the aggregator, before any sort
    sorted,         \* the result of the first sortPermissionsByPriority call
    reordered,      \* the same rules in the other concatenation order that was sorted next
    rule,           \* the CaslPermission handed to interpolateConditions
    context,        \* the context handed to interpolateConditions
    interpolated,   \* what interpolateConditions returned
    ability,        \* the ability createAbilityFromPermissions built
    request,        \* the question put to the ability, or the check-permission request
    response,       \* the ability's answer, or the handler's response
    validation,     \* what validateAndSanitizeContext returned
    store,          \* the tables of the database behind the better-auth adapter
    config,         \* the plugin options and the properties of the database
    calls,          \* the adapter operations in progress, one per caller
    faults          \* number of database calls that failed for a lost connection

sortVars == <<permissions, fetched, sorted, reordered>>
interpolationVars == <<rule, context, interpolated>>
abilityVars == <<ability, request, response>>
sanitizerVars == <<validation>>
storeVars == <<store, config, calls, faults>>
vars == <<pc, sortVars, interpolationVars, abilityVars, sanitizerVars, storeVars>>

----------------------------------------------------------------------------
(* Bounds of the model *)

\* longest rule list drawn from CoreRules
MaxRules == 3
\* timestamps are 1..MaxTime
MaxTime == 2
\* most tags in one template string
MaxTags == 2
\* longest fields list of a check-permission request
MaxFields == 2
\* most top-level keys of a context handed to the sanitizer
MaxKeys == 3
\* longest id list handed to a batchAssign operation
MaxIds == 2
\* largest options.batch.chunkSize
MaxChunkSize == 2
\* most database calls that fail for a lost connection
MaxFaults == 1

----------------------------------------------------------------------------
(* Optional properties *)

Undefined == [defined |-> FALSE]
Some(v) == [defined |-> TRUE, value |-> v]

----------------------------------------------------------------------------
(* validation: permissionSource *)

permissionSource ==
    [ USER_DIRECT |-> "user_direct",
      USER_PERMISSION_SET |-> "user_permission_set",
      MEMBER_DIRECT |-> "member_direct",
      MEMBER_PERMISSION_SET |-> "member_permission_set" ]

PermissionSources == { permissionSource[k] : k \in DOMAIN permissionSource }

----------------------------------------------------------------------------
(* String.prototype.localeCompare on ids made of ASCII letters.            *)
(* Collation compares the letters first without regard to case (primary    *)
(* weights), a proper prefix sorting first; only when the two strings are  *)
(* equal up to case does case decide, lowercase before uppercase           *)
(* (tertiary weights).                                                     *)

PrimaryWeight(c) == IF c \in {"a", "A"} THEN 1 ELSE 2
TertiaryWeight(c) == IF c \in {"a", "b"} THEN 0 ELSE 1

\* the collation key of a string at one level: the weights of its characters
PrimaryKey(s) == [i \in 1 .. Len(s) |-> PrimaryWeight(s[i])]
TertiaryKey(s) == [i \in 1 .. Len(s) |-> TertiaryWeight(s[i])]

\* lexicographic comparison of two keys from position i on, a proper prefix first
RECURSIVE CompareKeys(_, _, _)
CompareKeys(k, l, i) ==
    IF i > Len(k) /\ i > Len(l) THEN 0
    ELSE IF i > Len(k) THEN -1
    ELSE IF i > Len(l) THEN 1
    ELSE IF k[i] < l[i] THEN -1
    ELSE IF k[i] > l[i] THEN 1
    ELSE CompareKeys(k, l, i + 1)

localeCompare(s, t) ==
    IF CompareKeys(PrimaryKey(s), PrimaryKey(t), 1) # 0
    THEN CompareKeys(PrimaryKey(s), PrimaryKey(t), 1)
    ELSE CompareKeys(TertiaryKey(s), TertiaryKey(t), 1)

----------------------------------------------------------------------------
(* utils.ts: sortPermissionsByPriority *)

SwappedSourcePriority(source) ==
    CASE source = permissionSource.MEMBER_PERMISSION_SET -> 1
      [] source = permissionSource.MEMBER_DIRECT -> 3
      [] source = permissionSource.USER_PERMISSION_SET -> 2
      [] source = permissionSource.USER_DIRECT -> 4

sourcePriority(source) ==
    CASE source = permissionSource.MEMBER_PERMISSION_SET -> 1
      [] source = permissionSource.MEMBER_DIRECT -> 2
      [] source = permissionSource.USER_PERMISSION_SET -> 3
      [] source = permissionSource.USER_DIRECT -> 4

\* Object.keys(p.conditions).length
KeyCount(object) == Cardinality(DOMAIN object)

SwappedWeightsSpecificity(p) ==
    (IF p.conditions.defined /\ KeyCount(p.conditions.value) > 0 THEN 1 ELSE 0)
    + (IF p.fields.defined /\ Len(p.fields.value) > 0 THEN 2 ELSE 0)

getSpecificity(p) ==
    (IF p.conditions.defined /\ KeyCount(p.conditions.value) > 0 THEN 2 ELSE 0)
    + (IF p.fields.defined /\ Len(p.fields.value) > 0 THEN 1 ELSE 0)

CreatedAtOnlyTimestamp(p) == p.createdAt

\* new Date(p.updatedAt || p.createdAt).getTime()
getTimestamp(p) ==
    IF p.updatedAt.defined THEN p.updatedAt.value ELSE p.createdAt

NoIdFallback(a, b) == 0

\* 5. return a.id.localeCompare(b.id)
CompareById(a, b) == localeCompare(a.id, b.id)

\* 4. if (aTimestamp !== bTimestamp) return aTimestamp - bTimestamp
CompareByTimestamp(a, b) ==
    IF getTimestamp(a) # getTimestamp(b)
    THEN getTimestamp(a) - getTimestamp(b)
    ELSE CompareById(a, b)

\* 3. if (aSpecificity !== bSpecificity) return aSpecificity - bSpecificity
CompareBySpecificity(a, b) ==
    IF getSpecificity(a) # getSpecificity(b)
    THEN getSpecificity(a) - getSpecificity(b)
    ELSE CompareByTimestamp(a, b)

UnguardedCompareByInverted(a, b) ==
    IF a.inverted THEN 1 ELSE IF b.inverted THEN -1 ELSE CompareBySpecificity(a, b)

DenyFirstCompareByInverted(a, b) ==
    IF a.inverted # b.inverted
    THEN (IF a.inverted THEN -1 ELSE 1)
    ELSE CompareBySpecificity(a, b)

\* 2. if (a.inverted !== b.inverted) return a.inverted ? 1 : -1
CompareByInverted(a, b) ==
    IF a.inverted # b.inverted
    THEN (IF a.inverted THEN 1 ELSE -1)
    ELSE CompareBySpecificity(a, b)

\* the comparator handed to permissions.sort:
\* 1. if (aSourcePriority !== bSourcePriority) return aSourcePriority - bSourcePriority
comparePermissions(a, b) ==
    IF sourcePriority(a.source) # sourcePriority(b.source)
    THEN sourcePriority(a.source) - sourcePriority(b.source)
    ELSE CompareByInverted(a, b)

\* Array.prototype.sort is a stable comparison sort: an element moves left only past
\* elements the comparator puts strictly after it.
RECURSIVE InsertSorted(_, _, _)
InsertSorted(s, x, j) ==
    IF j > 0 /\ comparePermissions(s[j], x) > 0
    THEN InsertSorted(s, x, j - 1)
    ELSE SubSeq(s, 1, j) \o <<x>> \o SubSeq(s, j + 1, Len(s))

RECURSIVE SortPrefix(_, _)
SortPrefix(array, n) ==
    IF n = 0 THEN <<>>
    ELSE InsertSorted(SortPrefix(array, n - 1), array[n], n - 1)

sortPermissionsByPriority(array) == SortPrefix(array, Len(array))

----------------------------------------------------------------------------
(* The rules the sorter is run on *)

Ids == { <<"a">>, <<"B">>, <<"a", "B">> }

Timestamps == 1 .. MaxTime

FieldsValues == { Undefined, Some(<< >>), Some(<< <<"title">> >>) }

Draft == [t |-> "string", s |-> <<"draft">>]

ConditionsValues ==
    { Undefined, Some(<< >>), Some([k \in {"status"} |-> Draft]) }

\* updatedAt, when set, is not before createdAt
TimeValues ==
    { tm \in [createdAt : Timestamps, updatedAt : {Undefined} \cup {Some(u) : u \in Timestamps}] :
        tm.updatedAt.defined => tm.updatedAt.value > tm.createdAt }

Rule(id, source, inverted, fields, conditions, tm) ==
    [ id |-> id, source |-> source, inverted |-> inverted, fields |-> fields,
      conditions |-> conditions, createdAt |-> tm.createdAt, updatedAt |-> tm.updatedAt,
      action |-> "read", subject |-> "post" ]

FullRules ==
    { Rule(id, source, inverted, fields, conditions, tm) :
        id \in Ids, source \in PermissionSources, inverted \in BOOLEAN,
        fields \in FieldsValues, conditions \in ConditionsValues, tm \in TimeValues }

\* the stored permission behind a rule: everything but the source tag
Stored(r) == [r EXCEPT !.source = "none"]

\* an id names one stored permission: two rules with the same id differ in source only
ConsistentIds(list) ==
    \A i, j \in 1 .. Len(list) : list[i].id = list[j].id => Stored(list[i]) = Stored(list[j])

Distinct(list) ==
    \A i, j \in 1 .. Len(list) : i # j => list[i] # list[j]

\* number of properties, the id aside, in which two rules differ
Differences(a, b) ==
    Cardinality({ k \in {"source", "inverted", "fields", "conditions", "time"} :
        CASE k = "time" -> a.createdAt # b.createdAt \/ a.updatedAt # b.updatedAt
          [] k = "source" -> a.source # b.source
          [] k = "inverted" -> a.inverted # b.inverted
          [] k = "fields" -> a.fields # b.fields
          [] k = "conditions" -> a.conditions # b.conditions })

\* rules without fields, conditions or updates: they differ in id, source and inverted
CoreRules ==
    { r \in FullRules :
        /\ r.fields = Undefined /\ r.conditions = Undefined
        /\ r.createdAt = 1 /\ r.updatedAt = Undefined
        /\ r.id \in { <<"a">>, <<"B">> } }

RECURSIVE ListsOver(_, _)
ListsOver(S, n) ==
    IF n = 0 THEN { << >> }
    ELSE LET shorter == ListsOver(S, n - 1)
         IN  shorter \cup { Append(l, r) : l \in { m \in shorter : Len(m) = n - 1 }, r \in S }

\* one rule per source, the stored permissions alike in everything but the id
OnePerSource ==
    { l \in [1 .. 4 -> CoreRules] :
        /\ \A i, j \in 1 .. 4 : i # j => l[i].source # l[j].source
        /\ \A i, j \in 1 .. 4 : l[i].inverted = l[j].inverted }

PermutationsOf(list) ==
    { [i \in 1 .. Len(list) |-> list[p[i]]] :
        p \in { q \in [1 .. Len(list) -> 1 .. Len(list)] :
                  \A i, j \in 1 .. Len(list) : i # j => q[i] # q[j] } }

----------------------------------------------------------------------------
(* The sorter run on a fetched rule list *)

InitSort ==
    /\ pc = "fetched"
    /\ \/ \E a, b \in FullRules :
            /\ a # b
            /\ Differences(a, b) <= 3
            /\ ConsistentIds(<<a, b>>)
            /\ fetched = <<a, b>>
       \/ \E l \in ListsOver(CoreRules, MaxRules) :
            /\ Distinct(l) /\ ConsistentIds(l)
            /\ fetched = l
       \/ \E l \in OnePerSource :
            /\ ConsistentIds(l)
            /\ fetched = l
    /\ permissions = fetched
    /\ sorted = << >>
    /\ reordered = << >>
    /\ rule = Undefined /\ context = Undefined /\ interpolated = Undefined
    /\ ability = Undefined /\ request = Undefined /\ response = Undefined
    /\ store = Undefined /\ config = Undefined /\ calls = Undefined /\ faults = Undefined
    /\ validation = Undefined

\* fetchSortedPermissions: const sortedPermissions = sortPermissionsByPriority(allPermissions)
SortFetched ==
    /\ pc = "fetched"
    /\ permissions' = sortPermissionsByPriority(permissions)
    /\ sorted' = permissions'
    /\ pc' = "sorted"
    /\ UNCHANGED <<fetched, reordered, interpolationVars, abilityVars, sanitizerVars, storeVars>>

\* the sorter run on its own output
SortSorted ==
    /\ pc = "sorted"
    /\ permissions' = sortPermissionsByPriority(permissions)
    /\ pc' = "resorted"
    /\ UNCHANGED <<fetched, sorted, reordered, interpolationVars, abilityVars, sanitizerVars, storeVars>>

\* the same rules concatenated in another order, and sorted
SortReordered ==
    /\ pc = "sorted"
    /\ \E l \in PermutationsOf(fetched) :
          /\ reordered' = l
          /\ permissions' = sortPermissionsByPriority(l)
    /\ pc' = "reordered"
    /\ UNCHANGED <<fetched, sorted, interpolationVars, abilityVars, sanitizerVars, storeVars>>

NextSort == SortFetched \/ SortSorted \/ SortReordered

SpecSort == InitSort /\ [][NextSort]_vars

----------------------------------------------------------------------------
(* Properties of the sorter *)

\* the ranking of the sources as the specification states it, lowest first
SourceOrder ==
    << "member_permission_set", "member_direct", "user_permission_set", "user_direct" >>

RankOf(source) == CHOOSE n \in 1 .. 4 : SourceOrder[n] = source

\* specificity as the specification states it
HasConditionKey(r) == r.conditions.defined /\ DOMAIN r.conditions.value # {}
HasField(r) == r.fields.defined /\ r.fields.value # << >>
StatedSpecificity(r) ==
    2 * (IF HasConditionKey(r) THEN 1 ELSE 0) + (IF HasField(r) THEN 1 ELSE 0)

\* the effective timestamp as the specification states it
EffectiveTimestamp(r) == IF r.updatedAt.defined THEN r.updatedAt.value ELSE r.createdAt

SameClass(a, b) ==
    /\ a.source = b.source
    /\ a.inverted = b.inverted
    /\ StatedSpecificity(a) = StatedSpecificity(b)

\* UTF-16 code unit of a character
CodeUnit(c) == CASE c = "A" -> 65 [] c = "B" -> 66 [] c = "a" -> 97 [] c = "b" -> 98

\* s precedes t when the strings are compared code unit by code unit
RECURSIVE CodeUnitLess(_, _, _)
CodeUnitLess(s, t, i) ==
    IF i > Len(t) THEN FALSE
    ELSE IF i > Len(s) THEN TRUE
    ELSE IF CodeUnit(s[i]) # CodeUnit(t[i]) THEN CodeUnit(s[i]) < CodeUnit(t[i])
    ELSE CodeUnitLess(s, t, i + 1)

\* s precedes t in collation order: the letters decide without regard to case, a
\* proper prefix first; between strings equal up to case, lowercase comes first
Folded(s) == [i \in 1 .. Len(s) |-> IF s[i] \in {"a", "A"} THEN "a" ELSE "b"]
RECURSIVE CollationLess(_, _, _)
CollationLess(s, t, i) ==
    IF Folded(s) # Folded(t)
    THEN CodeUnitLess(Folded(s), Folded(t), 1)
    ELSE /\ i <= Len(s)
         /\ IF s[i] = t[i] THEN CollationLess(s, t, i + 1) ELSE s[i] \in {"a", "b"}

\* C1: sorting the same rules concatenated in any other order yields the same
\* sequence as sorting them in the order they were fetched.
C1_OrderIndependent ==
    pc = "reordered" => permissions = sorted

C1_Witness ==
    /\ pc = "reordered"
    /\ Len(fetched) = MaxRules
    /\ reordered # fetched
    /\ sorted # fetched /\ sorted # reordered
    /\ permissions = sorted

\* C2: sorting the sorted list again returns the same sequence.
C2_Idempotent ==
    pc = "resorted" => permissions = sorted

C2_Witness ==
    /\ pc = "resorted"
    /\ Len(fetched) = MaxRules
    /\ sorted # fetched
    /\ \E i \in 1 .. Len(sorted) : sorted[i].inverted
    /\ permissions = sorted

\* C3: in the sorted list every rule of a lower source rank precedes every rule of a
\* higher source rank, whatever else the rules hold, and one rule per source sorts to
\* member_permission_set, member_direct, user_permission_set, user_direct.
C3_SourceRanking ==
    pc # "fetched" =>
        /\ \A i, j \in 1 .. Len(sorted) :
              RankOf(sorted[i].source) < RankOf(sorted[j].source) => i < j
        /\ ( /\ Len(sorted) = 4
             /\ \A i, j \in 1 .. 4 : i # j => sorted[i].source # sorted[j].source )
           => [i \in 1 .. 4 |-> sorted[i].source] = SourceOrder

C3_Witness ==
    /\ pc = "sorted"
    /\ Len(sorted) = 4
    /\ [i \in 1 .. 4 |-> sorted[i].source] = SourceOrder
    /\ [i \in 1 .. 4 |-> fetched[i].source] =
          << "user_direct", "member_permission_set", "user_permission_set", "member_direct" >>

\* C4: within one source every allow rule precedes every deny rule, whatever the
\* rules' specificity, timestamps and ids.
C4_AllowBeforeDeny ==
    pc # "fetched" =>
        \A i, j \in 1 .. Len(sorted) :
            ( /\ sorted[i].source = sorted[j].source
              /\ ~sorted[i].inverted
              /\ sorted[j].inverted ) => i < j

C4_Witness ==
    /\ pc = "sorted"
    /\ Len(sorted) = 2
    /\ sorted[1].source = sorted[2].source
    /\ ~sorted[1].inverted /\ sorted[2].inverted
    /\ StatedSpecificity(sorted[1]) = 3 /\ StatedSpecificity(sorted[2]) = 0
    /\ fetched # sorted

\* C5: among rules of one source and one inverted flag, a rule of lower specificity
\* 2*(conditions has a key) + 1*(fields is non-empty) precedes a rule of higher
\* specificity, whatever the timestamps and ids.
C5_SpecificityOrder ==
    pc # "fetched" =>
        \A i, j \in 1 .. Len(sorted) :
            ( /\ sorted[i].source = sorted[j].source
              /\ sorted[i].inverted = sorted[j].inverted
              /\ StatedSpecificity(sorted[i]) < StatedSpecificity(sorted[j]) ) => i < j

C5_Witness ==
    /\ pc = "sorted"
    /\ Len(sorted) = 2
    /\ sorted[1].source = sorted[2].source
    /\ sorted[1].inverted = sorted[2].inverted
    /\ StatedSpecificity(sorted[1]) = 1 /\ StatedSpecificity(sorted[2]) = 2
    /\ EffectiveTimestamp(sorted[1]) > EffectiveTimestamp(sorted[2])
    /\ fetched # sorted

\* C6 as stated: among rules equal in source, inverted flag and specificity the rule
\* with the earlier effective timestamp comes first, among those with equal effective
\* timestamps the rule whose id is smaller code unit by code unit comes first, and
\* two rules with different ids never compare as equal.
C6_CodeUnitIdOrder ==
    pc # "fetched" =>
        \A i, j \in 1 .. Len(sorted) :
            SameClass(sorted[i], sorted[j]) =>
                /\ EffectiveTimestamp(sorted[i]) < EffectiveTimestamp(sorted[j]) => i < j
                /\ ( /\ EffectiveTimestamp(sorted[i]) = EffectiveTimestamp(sorted[j])
                     /\ CodeUnitLess(sorted[i].id, sorted[j].id, 1) ) => i < j
                /\ sorted[i].id # sorted[j].id
                      => comparePermissions(sorted[i], sorted[j]) # 0

\* C6 as amended: the id tie-break follows the collation order of localeCompare
\* (letters first without regard to case, lowercase before uppercase between ids
\* equal up to case), not the order of the code units.
C6_TimestampThenCollatedId ==
    pc # "fetched" =>
        \A i, j \in 1 .. Len(sorted) :
            SameClass(sorted[i], sorted[j]) =>
                /\ EffectiveTimestamp(sorted[i]) < EffectiveTimestamp(sorted[j]) => i < j
                /\ ( /\ EffectiveTimestamp(sorted[i]) = EffectiveTimestamp(sorted[j])
                     /\ CollationLess(sorted[i].id, sorted[j].id, 1) ) => i < j
                /\ sorted[i].id # sorted[j].id
                      => comparePermissions(sorted[i], sorted[j]) # 0

C6_Witness ==
    /\ pc = "sorted"
    /\ Len(sorted) = 2
    /\ SameClass(sorted[1], sorted[2])
    /\ EffectiveTimestamp(sorted[1]) = EffectiveTimestamp(sorted[2])
    /\ sorted[1].updatedAt.defined /\ ~sorted[2].updatedAt.defined
    /\ sorted[1].id = <<"a">> /\ sorted[2].id = <<"B">>
    /\ fetched # sorted

----------------------------------------------------------------------------
(* JavaScript values: conditions trees and contexts *)

Str(s) == [t |-> "string", s |-> s]
Num(n) == [t |-> "number", n |-> n]
Obj(o) == [t |-> "object", o |-> o]
Arr(a) == [t |-> "array", a |-> a]
Bool(b) == [t |-> "boolean", b |-> b]
Null == [t |-> "null"]
Undef == [t |-> "undefined"]

\* s.includes(sub)
Includes(s, sub) ==
    \E i \in 1 .. (Len(s) - Len(sub) + 1) : SubSeq(s, i, i + Len(sub) - 1) = sub

\* s.trim()
RECURSIVE TrimLeft(_)
TrimLeft(s) == IF s # << >> /\ Head(s) = " " THEN TrimLeft(Tail(s)) ELSE s
RECURSIVE TrimRight(_)
TrimRight(s) ==
    IF s # << >> /\ s[Len(s)] = " " THEN TrimRight(SubSeq(s, 1, Len(s) - 1)) ELSE s
Trim(s) == TrimLeft(TrimRight(s))

\* first index i >= from at which sub occurs in s, or 0
IndexOf(s, sub, from) ==
    LET hits == { i \in from .. (Len(s) - Len(sub) + 1) : SubSeq(s, i, i + Len(sub) - 1) = sub }
    IN  IF hits = {} THEN 0 ELSE CHOOSE i \in hits : \A j \in hits : i <= j

----------------------------------------------------------------------------
(* utils.ts: validateTemplateVariables *)

DISALLOWED_TEMPLATE_VARIABLES == { <<"process", ".", "env">> }
\* a blacklist that lacks prototype
DangerousKeysButPrototype == { "__proto__", "constructor" }

DANGEROUS_TEMPLATE_KEYS == { "__proto__", "constructor", "prototype" }

\* [^}]+ from position j: the index of the last symbol of the run of non-"}" symbols
RunEnd(s, j) ==
    CHOOSE e \in (j - 1) .. Len(s) :
        /\ \A k \in j .. e : s[k] # "}"
        /\ e = Len(s) \/ s[e + 1] = "}"

\* /\{\{([^}]+)\}\}/ matched at position i: the index of the last symbol of the
\* captured group, or 0 when the expression does not match there
GroupEndAt(s, i) ==
    IF i + 1 <= Len(s) /\ s[i] = "{" /\ s[i + 1] = "{"
    THEN LET e == RunEnd(s, i + 2)
         IN  IF e >= i + 2 /\ e + 2 <= Len(s) /\ s[e + 1] = "}" /\ s[e + 2] = "}"
             THEN e ELSE 0
    ELSE 0

\* the errors pushed for one variable, in the order of the three checks
VariableErrors(variable) ==
    (IF variable \in DISALLOWED_TEMPLATE_VARIABLES THEN << "Unauthorized template variable" >> ELSE << >>)
    \o (IF Includes(variable, <<".", ".">>) \/ Includes(variable, <<"/">>) \/ Includes(variable, <<"\\">>)
        THEN << "Invalid template variable format" >> ELSE << >>)
    \o (IF \/ Includes(variable, <<"(">>) \/ Includes(variable, <<")">>)
           \/ Includes(variable, <<"[">>) \/ Includes(variable, <<"]">>)
        THEN << "Template variable cannot contain function calls or array access" >> ELSE << >>)

\* the loop over templateRegex.exec(template), from lastIndex on
RECURSIVE ValidateFrom(_, _)
ValidateFrom(template, lastIndex) ==
    LET starts == { i \in lastIndex .. Len(template) : GroupEndAt(template, i) > 0 }
    IN  IF starts = {} THEN << >>
        ELSE LET i == CHOOSE m \in starts : \A n \in starts : m <= n
                 e == GroupEndAt(template, i)
                 variable == Trim(SubSeq(template, i + 2, e))
             IN  VariableErrors(variable) \o ValidateFrom(template, e + 3)

validateTemplateVariables(template) == ValidateFrom(template, 1)

----------------------------------------------------------------------------
(* Mustache.render(value, context): the tags the model's templates can hold are    *)
(* variables {{name}}, unescaped variables {{&name}} and {{{name}}}, and section   *)
(* openings {{#name}}, {{^name}}. A section closing {{/name}} never reaches        *)
(* Mustache: its variable holds "/" and the template is returned before the call.  *)

\* mustache.escape: every & < > ' / = of String(value) is replaced by its HTML entity
\* (so are the double quote and the backtick, which are no symbols of the model)
EscapeSymbol(c) ==
    CASE c = "&" -> "&amp;"
      [] c = "<" -> "&lt;"
      [] c = ">" -> "&gt;"
      [] c = "'" -> "&#39;"
      [] c = "/" -> "&#x2F;"
      [] c = "=" -> "&#x3D;"
      [] OTHER -> c

escapeHtml(s) == [i \in 1 .. Len(s) |-> EscapeSymbol(s[i])]

\* name.split(".")
RECURSIVE Split(_)
Split(name) ==
    LET dot == IndexOf(name, <<".">>, 1)
    IN  IF dot = 0 THEN << name >>
        ELSE << SubSeq(name, 1, dot - 1) >> \o Split(SubSeq(name, dot + 1, Len(name)))

\* the property name a part of a dotted name spells: property names of the model are
\* single word symbols, any other part names no property
PropertyName(part) == IF Len(part) = 1 THEN part[1] ELSE "(no such property)"

HasProperty(value, key) == value.t = "object" /\ key \in DOMAIN value.o

\* the walk of Context.lookup down a dotted name
RECURSIVE Walk(_, _, _)
Walk(value, names, index) ==
    IF index > Len(names) THEN value
    ELSE IF HasProperty(value, PropertyName(names[index]))
         THEN Walk(value.o[PropertyName(names[index])], names, index + 1)
         ELSE Undef

\* Context.lookup(name) on the view
Lookup(view, name) ==
    IF name = <<".">> THEN view
    ELSE IF IndexOf(name, <<".">>, 1) > 1 THEN Walk(view, Split(name), 1)
    ELSE IF HasProperty(view, PropertyName(name)) THEN view.o[PropertyName(name)]
    ELSE Undef

\* String(value) of a looked-up value
ToText(value) ==
    CASE value.t = "string" -> value.s
      [] value.t = "number" -> << ToString(value.n) >>
      [] value.t = "object" -> << "[object Object]" >>
      [] value.t = "boolean" -> << IF value.b THEN "true" ELSE "false" >>

\* Writer.escapedValue / Writer.unescapedValue: nothing for null and undefined
RenderedValue(value, escaped) ==
    IF value.t \in {"null", "undefined"} THEN << >>
    ELSE IF escaped /\ value.t # "number" THEN escapeHtml(ToText(value))
    ELSE ToText(value)

Threw == [threw |-> TRUE, out |-> << >>]
Rendered(out) == [threw |-> FALSE, out |-> out]

RECURSIVE SkipSpaces(_, _)
SkipSpaces(s, pos) == IF pos <= Len(s) /\ s[pos] = " " THEN SkipSpaces(s, pos + 1) ELSE pos

\* parseTemplate and renderTokens from position pos on
RECURSIVE RenderFrom(_, _, _)
RenderFrom(template, pos, view) ==
    LET open == IndexOf(template, <<"{", "{">>, pos)
    IN  IF open = 0 THEN Rendered(SubSeq(template, pos, Len(template)))
        ELSE
        LET text == SubSeq(template, pos, open - 1)
            p1 == SkipSpaces(template, open + 2)
            type == IF p1 <= Len(template) /\ template[p1] \in {"#", "^", "{", "&"}
                    THEN template[p1] ELSE "name"
            p2 == SkipSpaces(template, IF type = "name" THEN p1 ELSE p1 + 1)
            closer == IF type = "{" THEN <<"}", "}", "}">> ELSE <<"}", "}">>
            close == IndexOf(template, closer, p2)
            name == TrimRight(SubSeq(template, p2, close - 1))
            rest == RenderFrom(template, close + Len(closer), view)
        IN  IF close = 0 THEN Threw                        \* Unclosed tag
            ELSE IF type \in {"#", "^"} THEN Threw          \* Unclosed section
            ELSE IF rest.threw THEN Threw
            ELSE Rendered(text \o RenderedValue(Lookup(view, name), type = "name") \o rest.out)

MustacheRender(template, view) == RenderFrom(template, 1, view)

----------------------------------------------------------------------------
(* utils.ts: secureInterpolateObject, interpolateConditions *)

RECURSIVE secureInterpolateObject(_, _)
secureInterpolateObject(value, ctx) ==
    CASE value.t \in {"null", "undefined"} -> Null
      [] value.t = "string" ->
            IF ~Includes(value.s, <<"{", "{">>) THEN value
            ELSE IF Len(validateTemplateVariables(value.s)) > 0 THEN value
            ELSE LET result == MustacheRender(value.s, ctx)
                 IN  IF result.threw THEN value ELSE Str(result.out)
      [] value.t = "array" ->
            Arr([i \in DOMAIN value.a |-> secureInterpolateObject(value.a[i], ctx)])
      [] value.t = "object" ->
            Obj([key \in (DOMAIN value.o) \ DANGEROUS_TEMPLATE_KEYS |->
                    secureInterpolateObject(value.o[key], ctx)])
      [] OTHER -> value

\* if (!rule.conditions) return rule; otherwise the rule with its conditions interpolated
interpolateConditions(r, ctx) ==
    IF ~r.conditions.defined THEN r
    ELSE [r EXCEPT !.conditions = Some(secureInterpolateObject(Obj(r.conditions.value), ctx).o)]

----------------------------------------------------------------------------
(* The conditions and contexts interpolateConditions is run on *)

VariableNames ==
    { <<"user", ".", "id">>, <<"owner", ".", "id">>, <<"process", ".", "env">>,
      <<"user", ".", ".", "id">>, <<"user", "/", "id">>, <<"user", "\\", "id">>,
      <<"user", "(", ")">>, <<"user", "[", "0", "]">> }

\* what may stand between the opening braces and the name
Sigils == { << >>, <<"&">>, <<"{">>, <<"#">> }
Pads == { << >>, <<" ">> }

Tag(sigil, pad, name) ==
    <<"{", "{">> \o sigil \o pad \o name \o pad
        \o (IF sigil = <<"{">> THEN <<"}", "}", "}">> ELSE <<"}", "}">>)

PlainTag(name) == Tag(<< >>, << >>, name)

\* strings of up to n plain tags
RECURSIVE TagRuns(_)
TagRuns(n) ==
    IF n = 0 THEN { << >> }
    ELSE TagRuns(n - 1) \cup
         { run \o PlainTag(name) : run \in TagRuns(n - 1), name \in VariableNames }

Templates ==
    { <<"draft">>, <<"{", "{", "user", ".", "id">>, <<"{", "{", "}", "}">> }
    \cup { Tag(sigil, pad, name) : sigil \in Sigils, pad \in Pads, name \in VariableNames }
    \cup { <<"id", "-">> \o PlainTag(name) \o <<"-", "x">> : name \in VariableNames }
    \cup (TagRuns(MaxTags) \ { << >> })

\* the shapes of a conditions object around one template string
ConditionsAround(template) ==
    { [k \in {"authorId"} |-> Str(template)],
      [k \in {"authorId", "status"} |-> IF k = "authorId" THEN Str(template) ELSE Draft],
      [k \in {"owner"} |-> Obj([j \in {"id"} |-> Str(template)])],
      [k \in {"tags"} |-> Arr(<< Draft, Str(template) >>)],
      [k \in {"__proto__", "authorId"} |-> Str(template)],
      [k \in {"owner"} |-> Obj([j \in {"constructor", "id"} |-> Str(template)])],
      [k \in {"tags"} |-> Arr(<< Obj([j \in {"prototype", "name"} |-> Str(template)]) >>)] }

UserValues == { Undef, Obj([k \in {"id"} |-> Str(<<"123">>)]), Obj([k \in {"id"} |-> Str(<<"a", "&", "b">>)]),
                Obj([k \in {"id"} |-> Null]) }
ProcessValues == { Undef, Obj([k \in {"env"} |-> Str(<<"secret">>)]) }

\* a context object: its user and process properties, each one present or not
ContextOf(user, process) ==
    Obj([k \in { "user" : x \in { user } \ { Undef } } \cup { "process" : x \in { process } \ { Undef } } |->
            IF k = "user" THEN user ELSE process])

Contexts == { ContextOf(user, process) : user \in UserValues, process \in ProcessValues }

InitInterpolate ==
    /\ pc = "rule"
    /\ \E conditions \in { Undefined, Some(<< >>) }
                \cup { Some(c) : c \in UNION { ConditionsAround(template) : template \in Templates } } :
          rule = Rule(<<"a">>, permissionSource.USER_DIRECT, FALSE, Undefined, conditions,
                      [createdAt |-> 1, updatedAt |-> Undefined])
    /\ context \in Contexts
    /\ interpolated = Undefined
    /\ permissions = << >> /\ fetched = << >> /\ sorted = << >> /\ reordered = << >>
    /\ ability = Undefined /\ request = Undefined /\ response = Undefined
    /\ store = Undefined /\ config = Undefined /\ calls = Undefined /\ faults = Undefined
    /\ validation = Undefined

\* interpolateConditions(rule, context)
Interpolate ==
    /\ pc = "rule"
    /\ interpolated' = interpolateConditions(rule, context)
    /\ pc' = "interpolated"
    /\ UNCHANGED <<rule, context, sortVars, abilityVars, sanitizerVars, storeVars>>

NextInterpolate == Interpolate

SpecInterpolate == InitInterpolate /\ [][NextInterpolate]_vars

----------------------------------------------------------------------------
(* Properties of interpolateConditions *)

\* the string leaves of a conditions tree, each with the path of keys that leads to it
\* (an array index is a key spelled in digits)
RECURSIVE StringLeaves(_, _)
StringLeaves(value, path) ==
    CASE value.t = "string" -> { [path |-> path, s |-> value.s] }
      [] value.t = "object" ->
            UNION { StringLeaves(value.o[key], Append(path, key)) : key \in DOMAIN value.o }
      [] value.t = "array" ->
            UNION { StringLeaves(value.a[i], Append(path, ToString(i))) : i \in DOMAIN value.a }
      [] OTHER -> {}

\* what a tree holds at a path
RECURSIVE ValueAt(_, _)
ValueAt(value, path) ==
    IF path = << >> THEN value
    ELSE IF value.t = "object" /\ Head(path) \in DOMAIN value.o
         THEN ValueAt(value.o[Head(path)], Tail(path))
    ELSE IF value.t = "array" /\ \E i \in DOMAIN value.a : ToString(i) = Head(path)
         THEN ValueAt(value.a[CHOOSE i \in DOMAIN value.a : ToString(i) = Head(path)], Tail(path))
    ELSE Undef

\* the leaves interpolation is to treat: those no dangerous key leads to
TreatedLeaves(r) ==
    IF ~r.conditions.defined THEN {}
    ELSE { leaf \in StringLeaves(Obj(r.conditions.value), << >>) :
             \A i \in DOMAIN leaf.path : leaf.path[i] \notin {"__proto__", "constructor", "prototype"} }

ResultAt(path) == ValueAt(Obj(interpolated.conditions.value), path)

PropertyWords == { "user", "owner", "process", "id", "env" }

\* a variable name is rejected: it is process.env, or holds "..", "/", a backslash,
\* a parenthesis or a square bracket
RejectedName(name) ==
    \/ name = <<"process", ".", "env">>
    \/ Includes(name, <<".", ".">>)
    \/ \E i \in DOMAIN name : name[i] \in { "/", "\\", "(", ")", "[", "]" }

\* the placeholders of the variable name: {{name}}, {{&name}} and {{{name}}}, with or
\* without blanks around the name
PlaceholdersOf(name) ==
    { <<"{", "{">> \o pad \o name \o pad \o <<"}", "}">> : pad \in { << >>, <<" ">> } }
    \cup { <<"{", "{", "&">> \o pad \o name \o pad \o <<"}", "}">> : pad \in { << >>, <<" ">> } }
    \cup { <<"{", "{", "{">> \o pad \o name \o pad \o <<"}", "}", "}">> : pad \in { << >>, <<" ">> } }

\* C9: a string leaf that is one valid placeholder {{a.b}} becomes the value the
\* context holds at a.b, and the empty string when the context holds no value there.
C9_PlaceholderBecomesContextValue ==
    pc = "interpolated" =>
        \A leaf \in TreatedLeaves(rule) : \A a \in PropertyWords, b \in PropertyWords :
            \A pad \in { << >>, <<" ">> } :
                (/\ ~RejectedName(<<a, ".", b>>)
                 /\ leaf.s = <<"{", "{">> \o pad \o <<a, ".", b>> \o pad \o <<"}", "}">>)
                => LET found == ValueAt(context, <<a, b>>)
                   IN  ResultAt(leaf.path) =
                           IF found.t = "string" THEN found ELSE Str(<< >>)

\* C10: a string leaf holding a placeholder of a rejected variable name is returned
\* exactly as stored, whatever the context holds.
C10_RejectedLeafUnchanged ==
    pc = "interpolated" =>
        \A leaf \in TreatedLeaves(rule) :
            (\E name \in VariableNames :
                /\ RejectedName(name)
                /\ \E placeholder \in PlaceholdersOf(name) : Includes(leaf.s, placeholder))
            => ResultAt(leaf.path) = Str(leaf.s)

----------------------------------------------------------------------------
(* utils.ts: validateAndSanitizeContext, sanitizeNestedObject *)

NullIsNoScalar(value) == value.t \in {"string", "number", "boolean"}

\* typeof value is "string", "number" or "boolean", or value === null
IsScalar(value) == value.t \in {"string", "number", "boolean", "null"}

\* value && typeof value === "object" && !Array.isArray(value)
IsPlainObject(value) == value.t = "object"

\* of an object nested in a nested object only the dangerous keys with scalar
\* values are copied
sanitizeNestedObject(obj) ==
    Obj([key \in { k \in (DOMAIN obj.o) \ DANGEROUS_TEMPLATE_KEYS :
                       IsScalar(obj.o[k]) \/ IsPlainObject(obj.o[k]) } |->
            IF IsScalar(obj.o[key]) THEN obj.o[key]
            ELSE Obj([nestedKey \in { k \in (DOMAIN obj.o[key].o) \cap DANGEROUS_TEMPLATE_KEYS :
                                        IsScalar(obj.o[key].o[k]) } |->
                        obj.o[key].o[nestedKey]])])

\* errors holds, for every key an error was pushed for, the message up to the key
validateAndSanitizeContext(ctx) ==
    LET dangerous == (DOMAIN ctx.o) \cap DANGEROUS_TEMPLATE_KEYS
        kept == { k \in (DOMAIN ctx.o) \ dangerous :
                    IsPlainObject(ctx.o[k]) \/ IsScalar(ctx.o[k]) }
        errors == { [message |-> "Dangerous context key", key |-> k] : k \in dangerous }
                  \cup { [message |-> "Invalid context value type for key", key |-> k] :
                            k \in ((DOMAIN ctx.o) \ dangerous) \ kept }
    IN  [ errors |-> errors,
          isValid |-> errors = {},
          sanitizedContext |->
              Obj([key \in kept |->
                      IF IsPlainObject(ctx.o[key]) THEN sanitizeNestedObject(ctx.o[key])
                      ELSE ctx.o[key]]) ]

----------------------------------------------------------------------------
(* utils.ts: applyPermissionRule, createAbilityFromPermissions, with the rules *)
(* AbilityBuilder collects and the ability build() makes of them               *)

\* can(act, subj, fields, conditions) and cannot(act, subj, fields, conditions): the
\* raw rule pushed; fields and conditions are set when they are given
applyPermissionRule(r) ==
    [ action |-> r.action, subject |-> r.subject, inverted |-> r.inverted,
      fields |-> r.fields, conditions |-> r.conditions ]

\* build() validates each raw rule: an empty fields array is an error
BuildThrows(rules) ==
    \E i \in DOMAIN rules : rules[i].fields.defined /\ rules[i].fields.value = << >>

createAbilityFromPermissions(list, ctx) ==
    LET sanitizedContext ==
            IF ctx.t = "undefined" THEN Undef
            ELSE validateAndSanitizeContext(ctx).sanitizedContext
        rules == [i \in DOMAIN list |->
                    applyPermissionRule(IF sanitizedContext.t = "undefined" THEN list[i]
                                        ELSE interpolateConditions(list[i], sanitizedContext))]
    IN  IF BuildThrows(rules) THEN [threw |-> TRUE, rules |-> << >>]
        ELSE [threw |-> FALSE, rules |-> rules]

----------------------------------------------------------------------------
(* ability.can(action, subject, field) *)

\* a subject asked about: the bare type, or an instance subject(type, object)
BareSubject(type) == [type |-> type, instance |-> Undefined]
SubjectInstance(type, object) == [type |-> type, instance |-> Some(object)]

\* Rule.matchesField
matchesField(r, field) ==
    IF ~r.fields.defined THEN TRUE
    ELSE IF ~field.defined THEN ~r.inverted
    ELSE \E i \in DOMAIN r.fields.value : r.fields.value[i] = field.value

\* the conditions as a query on an object: every key holds the value asked for
MatchesQuery(conditions, object) ==
    \A key \in DOMAIN conditions : key \in DOMAIN object /\ object[key] = conditions[key]

\* Rule.matchesConditions
matchesConditions(r, subject) ==
    IF ~r.conditions.defined THEN TRUE
    ELSE IF ~subject.instance.defined THEN ~r.inverted
    ELSE MatchesQuery(r.conditions.value, subject.instance.value)

\* rulesFor(action, subjectType, field): the rules of the action (or "manage") and the
\* subject type (or "all"), filtered by field when some rule restricts fields
InRulesFor(rules, i, action, type, field) ==
    /\ rules[i].action \in { action, "manage" }
    /\ rules[i].subject \in { type, "all" }
    /\ (\E j \in DOMAIN rules : rules[j].fields.defined) => matchesField(rules[i], field)

\* the index of the first rule that matches: no rule matches for 0
FirstRelevantRuleFor(rules, action, subject, field) ==
    LET matching == { i \in DOMAIN rules :
                        /\ InRulesFor(rules, i, action, subject.type, field)
                        /\ matchesConditions(rules[i], subject) }
    IN  IF matching = {} THEN 0 ELSE CHOOSE i \in matching : \A j \in matching : i <= j

\* relevantRuleFor: the rules are tried from the last one defined to the first; the
\* index of the rule found, 0 for none
relevantRuleFor(rules, action, subject, field) ==
    LET matching == { i \in DOMAIN rules :
                        /\ InRulesFor(rules, i, action, subject.type, field)
                        /\ matchesConditions(rules[i], subject) }
    IN  IF matching = {} THEN 0 ELSE CHOOSE i \in matching : \A j \in matching : i >= j

can(rules, action, subject, field) ==
    /\ relevantRuleFor(rules, action, subject, field) # 0
    /\ ~rules[relevantRuleFor(rules, action, subject, field)].inverted

----------------------------------------------------------------------------
(* createAbilityFromPermissions run on a rule list, and the ability asked *)

Templated == [k \in {"authorId"} |-> Str(PlainTag(<<"user", ".", "id">>))]

AbilityRules ==
    { Rule(<<"a">>, source, inverted, fields, conditions, [createdAt |-> 1, updatedAt |-> Undefined]) :
        source \in { permissionSource.USER_PERMISSION_SET, permissionSource.USER_DIRECT },
        inverted \in BOOLEAN, fields \in FieldsValues,
        conditions \in ConditionsValues \cup { Some(Templated) } }

\* rules without fields and conditions
PlainRules == { r \in AbilityRules : ~r.fields.defined /\ ~r.conditions.defined }

\* the rule at position i of a list carries the i-th id
IdAt(i) == CASE i = 1 -> <<"a">> [] i = 2 -> <<"B">> [] OTHER -> <<"a", "B">>
Numbered(list) == [i \in DOMAIN list |-> [list[i] EXCEPT !.id = IdAt(i)]]

AbilityContexts ==
    { Undef, ContextOf(Obj([k \in {"id"} |-> Str(<<"123">>)]), Undef),
      Obj([k \in {"__proto__", "user"} |-> Obj([j \in {"id"} |-> Str(<<"123">>)])]) }

\* the objects asked about
Resources ==
    { [k \in {"status"} |-> Draft],
      [k \in {"status"} |-> Str(<<"published">>)],
      [k \in {"status", "authorId"} |-> IF k = "status" THEN Draft ELSE Str(<<"123">>)] }

\* "Object" is the type detected for an object that was not tagged with subject()
Questions ==
    { [action |-> "read", subject |-> subject, field |-> field] :
        subject \in { BareSubject("post") }
                    \cup { SubjectInstance(type, object) : type \in {"post", "Object"}, object \in Resources },
        field \in { Undefined, Some(<<"title">>) } }

InitAbility ==
    /\ pc = "permissions"
    /\ \/ \E a \in AbilityRules : permissions = Numbered(<<a>>)
       \/ \E a, b \in AbilityRules : permissions = Numbered(<<a, b>>)
       \/ \E a, b \in AbilityRules, c \in PlainRules : permissions = Numbered(<<a, b, c>>)
    /\ context \in AbilityContexts
    /\ ability = Undefined /\ request = Undefined /\ response = Undefined
    /\ store = Undefined /\ config = Undefined /\ calls = Undefined /\ faults = Undefined
    /\ validation = Undefined
    /\ fetched = << >> /\ sorted = << >> /\ reordered = << >>
    /\ rule = Undefined /\ interpolated = Undefined

\* const ability = createAbilityFromPermissions(permissions, context)
CreateAbility ==
    /\ pc = "permissions"
    /\ ability' = createAbilityFromPermissions(permissions, context)
    /\ pc' = IF ability'.threw THEN "threw" ELSE "ability"
    /\ UNCHANGED <<permissions, fetched, sorted, reordered, interpolationVars, request, response, sanitizerVars, storeVars>>

\* ability.can(action, subject, field)
Can ==
    /\ pc = "ability"
    /\ \E question \in Questions :
          /\ request' = question
          /\ response' = can(ability.rules, question.action, question.subject, question.field)
    /\ pc' = "answered"
    /\ UNCHANGED <<sortVars, interpolationVars, ability, sanitizerVars, storeVars>>

NextAbility == CreateAbility \/ Can

SpecAbility == InitAbility /\ [][NextAbility]_vars

----------------------------------------------------------------------------
(* Properties of the ability *)

\* an object satisfies conditions: it holds, at every key of the conditions, the
\* value the conditions hold there
Satisfies(object, conditions) ==
    \A key \in DOMAIN conditions : key \in DOMAIN object /\ object[key] = conditions[key]

\* the list is an allow rule followed by a deny rule of the same action and subject
\* that carries conditions and comes from a source ranked after the allow rule's
AllowThenConditionalDeny(list) ==
    /\ Len(list) = 2
    /\ ~list[1].inverted /\ list[2].inverted
    /\ list[1].action = list[2].action /\ list[1].subject = list[2].subject
    /\ list[2].conditions.defined
    /\ RankOf(list[2].source) > RankOf(list[1].source)

\* the question is about the action and subject of the first rule, no field named
AsksAbout(list) ==
    /\ request.action = list[1].action
    /\ request.subject.type = list[1].subject
    /\ ~request.field.defined

\* C7 as stated: with an allow rule before a deny rule that carries conditions, the
\* bare subject type is permitted and every resource of the type that satisfies the
\* deny rule's conditions is refused.
C7_DenyWithConditionsWins ==
    (pc = "answered" /\ AllowThenConditionalDeny(permissions) /\ AsksAbout(permissions)) =>
        /\ ~request.subject.instance.defined => response = TRUE
        /\ (/\ request.subject.instance.defined
            /\ Satisfies(request.subject.instance.value, permissions[2].conditions.value))
           => response = FALSE

\* C7: with an allow rule before a deny rule that carries conditions and restricts no
\* fields, the bare subject type is permitted and every resource of the type that
\* satisfies the conditions of the deny rule, as the ability holds them after
\* interpolation, is refused.
C7_FieldlessDenyWithConditionsWins ==
    (/\ pc = "answered" /\ AllowThenConditionalDeny(permissions) /\ AsksAbout(permissions)
     /\ ~permissions[2].fields.defined) =>
        /\ ~request.subject.instance.defined => response = TRUE
        /\ (/\ request.subject.instance.defined
            /\ Satisfies(request.subject.instance.value, ability.rules[2].conditions.value))
           => response = FALSE

C7_Witness ==
    /\ pc = "answered" /\ AllowThenConditionalDeny(permissions) /\ AsksAbout(permissions)
    /\ ~permissions[2].fields.defined
    /\ permissions[2].conditions.value = [k \in {"status"} |-> Draft]
    /\ ~permissions[1].conditions.defined /\ ~permissions[1].fields.defined
    /\ request.subject = SubjectInstance("post", [k \in {"status"} |-> Draft])
    /\ response = FALSE
    /\ can(ability.rules, "read", BareSubject("post"), Undefined)

----------------------------------------------------------------------------
(* handlers/generic/check-permission.ts: checkPermissionHandler *)

\* { member: memberId ? { id: memberId } : undefined, resource,
\*   user: ctx.context.session?.user ?? { id: userId }, ...context }
\* (memberId is a non-empty string by checkPermissionRequestSchema)
evaluationContext(req) ==
    LET own == [k \in {"member", "resource", "user"} |->
                    CASE k = "member" -> Obj([j \in {"id"} |-> req.memberId])
                      [] k = "resource" -> req.resource
                      [] k = "user" -> IF req.session.defined THEN req.session.value
                                       ELSE Obj([j \in {"id"} |-> req.userId])]
        spread == IF req.context.t = "object" THEN req.context.o ELSE << >>
    IN  Obj([k \in DOMAIN own \cup DOMAIN spread |->
                IF k \in DOMAIN spread THEN spread[k] ELSE own[k]])

\* resource ? subjectHelper(subjectToCheck, resource) : subjectToCheck
subjectInstance(req) ==
    IF req.resource.t = "object" THEN SubjectInstance(req.subject, req.resource.o)
    ELSE BareSubject(req.subject)

SomeField(rules, action, subject, fields, i) ==
    \E j \in i .. Len(fields) : can(rules, action, subject, Some(fields[j]))

\* fields.every((field) => ability.can(action, subjectInstance, field)), from index i on
RECURSIVE EveryField(_, _, _, _, _)
EveryField(rules, action, subject, fields, i) ==
    IF i > Len(fields) THEN TRUE
    ELSE IF ~can(rules, action, subject, Some(fields[i])) THEN FALSE
    ELSE EveryField(rules, action, subject, fields, i + 1)

\* the response for the sorted permissions and the ability built from them; an error
\* of build() leaves the handler as an APIError
checkPermissionResponse(req, sortedPermissions, built) ==
    IF built.threw THEN [threw |-> TRUE]
    ELSE LET allowed ==
                 IF req.fields.defined /\ Len(req.fields.value) > 0
                 THEN EveryField(built.rules, req.action, subjectInstance(req), req.fields.value, 1)
                 ELSE can(built.rules, req.action, subjectInstance(req), Undefined)
         IN  [ threw |-> FALSE,
               allowed |-> allowed,
               meta |-> [ hasPermissions |-> Len(sortedPermissions) > 0,
                          source |-> "ability",
                          totalPermissions |-> Len(sortedPermissions) ],
               reason |-> IF allowed THEN Undefined
                          ELSE Some(<<"Access denied for action '", req.action, "' on '", req.subject, "'">>) ]

----------------------------------------------------------------------------
(* The check-permission handler run on the permissions of a user and member *)

FieldNames == { <<"title">>, <<"content">> }

CheckedRules ==
    { Rule(<<"a">>, source, inverted, fields, conditions, [createdAt |-> 1, updatedAt |-> Undefined]) :
        source \in { permissionSource.MEMBER_DIRECT, permissionSource.USER_DIRECT },
        inverted \in BOOLEAN,
        fields \in { Undefined, Some(<< >>) } \cup { Some(<<name>>) : name \in FieldNames },
        conditions \in { Undefined, Some(Templated) } }

Requests ==
    { [ userId |-> who.userId, session |-> who.session, memberId |-> Str(<<"m1">>),
        action |-> "read", subject |-> "post",
        resource |-> resource, fields |-> fields, context |-> ctx ] :
        who \in { [userId |-> Undef, session |-> Undefined],
                  [userId |-> Str(<<"123">>), session |-> Undefined],
                  [userId |-> Str(<<"123">>), session |-> Some(Obj([k \in {"id"} |-> Str(<<"456">>)]))] },
        resource \in { Undef, Obj([k \in {"authorId"} |-> Str(<<"123">>)]) },
        fields \in { Undefined } \cup { Some(l) : l \in ListsOver(FieldNames, MaxFields) },
        ctx \in { Undef, ContextOf(Obj([k \in {"id"} |-> Str(<<"123">>)]), Undef) } }

InitCheck ==
    /\ pc = "request"
    /\ \/ fetched = << >>
       \/ \E a \in CheckedRules : fetched = Numbered(<<a>>)
       \/ \E a, b \in CheckedRules : fetched = Numbered(<<a, b>>)
    /\ request \in Requests
    /\ permissions = << >> /\ sorted = << >> /\ reordered = << >>
    /\ rule = Undefined /\ context = Undefined /\ interpolated = Undefined
    /\ ability = Undefined /\ response = Undefined
    /\ store = Undefined /\ config = Undefined /\ calls = Undefined /\ faults = Undefined
    /\ validation = Undefined

\* checkPermissionHandler(ctx, options): the permissions collected for the user and
\* the member are sorted, the ability is built in the evaluation context and asked
CheckPermission ==
    /\ pc = "request"
    /\ permissions' = sortPermissionsByPriority(fetched)
    /\ sorted' = permissions'
    /\ context' = evaluationContext(request)
    /\ ability' = createAbilityFromPermissions(sorted', context')
    /\ response' = checkPermissionResponse(request, sorted', ability')
    /\ pc' = "response"
    /\ UNCHANGED <<fetched, reordered, rule, interpolated, request, sanitizerVars, storeVars>>

NextCheck == CheckPermission

SpecCheck == InitCheck /\ [][NextCheck]_vars

----------------------------------------------------------------------------
(* Properties of the check-permission handler *)

RequestedFields == IF request.fields.defined THEN request.fields.value ELSE << >>

PermitsField(field) ==
    can(ability.rules, request.action, subjectInstance(request), Some(field))

\* C8: with a non-empty fields list, allowed is true exactly when the ability permits
\* the action on the subject for every requested field taken alone; one refused field
\* makes allowed false.
C8_EveryFieldPermitted ==
    (pc = "response" /\ ~response.threw /\ RequestedFields # << >>) =>
        (response.allowed <=> \A i \in DOMAIN RequestedFields : PermitsField(RequestedFields[i]))

C8_Witness ==
    /\ pc = "response" /\ ~response.threw
    /\ RequestedFields = << <<"title">>, <<"content">> >>
    /\ PermitsField(<<"title">>) /\ ~PermitsField(<<"content">>)
    /\ ~response.allowed

----------------------------------------------------------------------------
(* validateAndSanitizeContext run on a context *)

SanitizerKeys == { "__proto__", "prototype", "user", "unauthorized", "maliciousKey" }

SanitizerValues ==
    { Str(<<"should be removed">>), Num(0), Bool(TRUE), Null, Undef,
      Arr(<< Str(<<"x">>) >>),
      Obj([k \in {"id", "name"} |-> IF k = "id" THEN Str(<<"123">>) ELSE Str(<<"John">>)]),
      Obj([k \in {"dangerous"} |-> Bool(TRUE)]),
      Obj([k \in {"constructor", "profile"} |->
              IF k = "constructor" THEN Str(<<"x">>)
              ELSE Obj([j \in {"__proto__", "name"} |-> Str(<<"John">>)])]) }

\* the contexts of at most MaxKeys keys
SanitizerContexts ==
    { Obj(o) : o \in UNION { [keys -> SanitizerValues] :
                                keys \in { K \in SUBSET SanitizerKeys : Cardinality(K) <= MaxKeys } } }

InitSanitize ==
    /\ pc = "context"
    /\ context \in SanitizerContexts
    /\ validation = Undefined
    /\ permissions = << >> /\ fetched = << >> /\ sorted = << >> /\ reordered = << >>
    /\ rule = Undefined /\ interpolated = Undefined
    /\ ability = Undefined /\ request = Undefined /\ response = Undefined
    /\ store = Undefined /\ config = Undefined /\ calls = Undefined /\ faults = Undefined

\* const validation = validateAndSanitizeContext(context)
Sanitize ==
    /\ pc = "context"
    /\ validation' = validateAndSanitizeContext(context)
    /\ pc' = "validated"
    /\ UNCHANGED <<sortVars, interpolationVars, abilityVars, storeVars>>

NextSanitize == Sanitize

SpecSanitize == InitSanitize /\ [][NextSanitize]_vars

----------------------------------------------------------------------------
(* Properties of the context sanitizer *)

DangerousKeys == { "__proto__", "constructor", "prototype" }

\* a string, a number, a boolean, null or a plain object
SafeValue(value) == value.t \in { "string", "number", "boolean", "null", "object" }

\* C11: a context with a dangerous top-level key is invalid, the sanitized context
\* lacks the key and keeps every other top-level key whose value is a string, a
\* number, a boolean, null or a plain object.
C11_DangerousKeyDropped ==
    (pc = "validated" /\ DOMAIN context.o \cap DangerousKeys # {}) =>
        /\ ~validation.isValid
        /\ DOMAIN validation.sanitizedContext.o \cap DangerousKeys = {}
        /\ \A key \in DOMAIN context.o \ DangerousKeys :
              SafeValue(context.o[key]) => key \in DOMAIN validation.sanitizedContext.o

C11_Witness ==
    /\ pc = "validated"
    /\ DOMAIN context.o = { "__proto__", "user", "unauthorized" }
    /\ context.o["user"].t = "object" /\ context.o["unauthorized"] = Null
    /\ ~validation.isValid
    /\ DOMAIN validation.sanitizedContext.o = { "user", "unauthorized" }

\* C12: a top-level key that is no recognised context key is unauthorized: the
\* context is invalid, an "Unauthorized context key" error names the key and the
\* sanitized context lacks it, while user is kept.
C12_UnrecognisedKeyRejected ==
    (/\ pc = "validated"
     /\ DOMAIN context.o = { "maliciousKey", "unauthorized", "user" }
     /\ context.o["maliciousKey"].t = "object" /\ context.o["unauthorized"].t = "string"
     /\ context.o["user"].t = "object") =>
        /\ ~validation.isValid
        /\ \A key \in { "maliciousKey", "unauthorized" } :
              /\ [message |-> "Unauthorized context key", key |-> key] \in validation.errors
              /\ key \notin DOMAIN validation.sanitizedContext.o
        /\ "user" \in DOMAIN validation.sanitizedContext.o

----------------------------------------------------------------------------
(* middleware.ts: createAuthorizationSchema. The tables of the plugin, and the  *)
(* user and member tables its junction tables refer to.                        *)

PermissionIds == { "p1", "p2" }
PermissionSetIds == { "s1", "s2" }
UserIds == { "u1", "u2" }
MemberIds == { "m1", "m2" }

JunctionTables ==
    { "permissionPermissionSet", "memberPermission", "memberPermissionSet",
      "userPermission", "userPermissionSet" }

\* the two fields of a junction table
JunctionFields(table) ==
    CASE table = "permissionPermissionSet" -> { "permissionId", "permissionSetId" }
      [] table = "memberPermission" -> { "memberId", "permissionId" }
      [] table = "memberPermissionSet" -> { "memberId", "permissionSetId" }
      [] table = "userPermission" -> { "userId", "permissionId" }
      [] table = "userPermissionSet" -> { "userId", "permissionSetId" }

\* references: { model, field: "id" } of a junction field
ReferencedModel(field) ==
    CASE field = "permissionId" -> "permission"
      [] field = "permissionSetId" -> "permissionSet"
      [] field = "userId" -> "user"
      [] field = "memberId" -> "member"

IdsOfField(field) ==
    CASE field = "permissionId" -> PermissionIds
      [] field = "permissionSetId" -> PermissionSetIds
      [] field = "userId" -> UserIds
      [] field = "memberId" -> MemberIds

\* the rows a junction table can hold. A table holds a row any number of times: the
\* schema gives the junction tables no unique field, each row has its own generated id
JunctionRows(table) ==
    { row \in [JunctionFields(table) -> PermissionIds \cup PermissionSetIds \cup UserIds \cup MemberIds] :
        \A f \in JunctionFields(table) : row[f] \in IdsOfField(f) }

EmptyJunction(table) == [row \in JunctionRows(table) |-> 0]

\* the ids of the rows of a referenced table
IdsIn(st, model) ==
    IF model = "permission" THEN { row.id : row \in st.permission } ELSE st[model]

----------------------------------------------------------------------------
(* Errors: the raw errors of the database, and APIError *)

RawError(message) == [api |-> FALSE, status |-> "", message |-> message]
APIError(status, message) == [api |-> TRUE, status |-> status, message |-> message]

\* constants/error-codes: AUTHORIZATION_ERROR_CODES
DATABASE_ERROR == <<"Database", "operation", "failed">>
CONSTRAINT_VIOLATION == <<"Database", "constraint", "violation">>
DUPLICATE_ENTRY == <<"Duplicate", "entry">>

\* the messages of the databases, word by word
Dialects == { "sqlite", "postgres", "mysql" }

UniqueViolation(dialect) ==
    RawError(CASE dialect = "sqlite" -> <<"UNIQUE", "constraint", "failed">>
               [] dialect = "postgres" -> <<"duplicate", "key", "value", "violates", "unique", "constraint">>
               [] dialect = "mysql" -> <<"Duplicate", "entry", "for", "key">>)

ForeignKeyViolation(dialect) ==
    RawError(CASE dialect = "sqlite" -> <<"FOREIGN", "KEY", "constraint", "failed">>
               [] dialect = "postgres" -> <<"violates", "foreign", "key", "constraint">>
               [] dialect = "mysql" -> <<"a", "foreign", "key", "constraint", "fails">>)

ConnectionLost == RawError(<<"Connection", "terminated", "unexpectedly">>)

\* String.prototype.toLowerCase, word by word
LowerWord(word) ==
    CASE word = "UNIQUE" -> "unique"
      [] word = "FOREIGN" -> "foreign"
      [] word = "KEY" -> "key"
      [] word = "Duplicate" -> "duplicate"
      [] word = "Connection" -> "connection"
      [] word = "Database" -> "database"
      [] OTHER -> word

toLowerCase(message) == [i \in DOMAIN message |-> LowerWord(message[i])]

----------------------------------------------------------------------------
(* utils.ts: isDuplicateKeyError, chunkArray, handleIdempotentJunctionAssignment *)

isDuplicateKeyError(error) ==
    IF error.api
    THEN \/ error.status = "CONFLICT"
         \/ Includes(error.message, <<"duplicate">>)
         \/ Includes(error.message, <<"unique">>)
         \/ Includes(error.message, <<"UNIQUE", "constraint", "failed">>)
         \/ Includes(error.message, <<"duplicate", "key", "value">>)
    ELSE \/ Includes(toLowerCase(error.message), <<"duplicate">>)
         \/ Includes(toLowerCase(error.message), <<"unique">>)
         \/ Includes(toLowerCase(error.message), <<"constraint">>)
         \/ Includes(toLowerCase(error.message), <<"already", "exists">>)

\* for (let i = 0; i < array.length; i += chunkSize) chunks.push(array.slice(i, i + chunkSize))
RECURSIVE ChunksFrom(_, _, _)
ChunksFrom(array, chunkSize, i) ==
    IF i > Len(array) THEN << >>
    ELSE << SubSeq(array, i, IF i + chunkSize - 1 < Len(array) THEN i + chunkSize - 1 ELSE Len(array)) >>
         \o ChunksFrom(array, chunkSize, i + chunkSize)

\* a chunking that puts the whole array into one chunk
AllInOneChunk(array, chunkSize) == << array >>

chunkArray(array, chunkSize) == ChunksFrom(array, chunkSize, 1)

\* adapter.create({ data, model }) on a junction table: what the database can answer.
\* The insert fails when the pair is there and the database was given a unique index
\* over it, or when a referenced row is missing and the database enforces the
\* references; any call can fail for a lost connection.
CreateOutcomes(st, cfg, table, row, mayFault) ==
    (IF mayFault THEN { [error |-> Some(ConnectionLost), store |-> st, fault |-> TRUE] } ELSE {})
    \cup
    { IF cfg.uniquePairs /\ st[table][row] > 0
      THEN [error |-> Some(UniqueViolation(cfg.dialect)), store |-> st, fault |-> FALSE]
      ELSE IF cfg.foreignKeys /\ \E f \in DOMAIN row : row[f] \notin IdsIn(st, ReferencedModel(f))
      THEN [error |-> Some(ForeignKeyViolation(cfg.dialect)), store |-> st, fault |-> FALSE]
      ELSE [error |-> Undefined,
            store |-> [st EXCEPT ![table] = [@ EXCEPT ![row] = @ + 1]],
            fault |-> FALSE] }

\* handleIdempotentJunctionAssignment: the promise resolves when the create succeeded
\* or failed with what isDuplicateKeyError takes for a duplicate, else it rejects with
\* the error. With a transaction the one create is the whole transaction.
AssignmentRejects(created) ==
    created.error.defined /\ ~isDuplicateKeyError(created.error.value)

----------------------------------------------------------------------------
(* adapter: batchAssignUsersToPermission, batchAssignMembersToPermission,       *)
(* batchAssignUsersToPermissionSet, batchAssignMembersToPermissionSet and       *)
(* batchAssignPermissionsToPermissionSet. The five differ in the junction table *)
(* and in which of its fields is given once (the parent) and which as a list.   *)

\* the field given once, and the field the ids of the list go to
ParentField(operation) ==
    CASE operation \in { "batchAssignUsersToPermission", "batchAssignMembersToPermission" } -> "permissionId"
      [] OTHER -> "permissionSetId"

ChildField(operation) ==
    CASE operation \in { "batchAssignUsersToPermission", "batchAssignUsersToPermissionSet" } -> "userId"
      [] operation \in { "batchAssignMembersToPermission", "batchAssignMembersToPermissionSet" } -> "memberId"
      [] OTHER -> "permissionId"

AssignTable(operation) ==
    CASE operation = "batchAssignUsersToPermission" -> "userPermission"
      [] operation = "batchAssignMembersToPermission" -> "memberPermission"
      [] operation = "batchAssignUsersToPermissionSet" -> "userPermissionSet"
      [] operation = "batchAssignMembersToPermissionSet" -> "memberPermissionSet"
      [] operation = "batchAssignPermissionsToPermissionSet" -> "permissionPermissionSet"

AssignOperations ==
    { "batchAssignUsersToPermission", "batchAssignMembersToPermission",
      "batchAssignUsersToPermissionSet", "batchAssignMembersToPermissionSet",
      "batchAssignPermissionsToPermissionSet" }

\* the data of the junction row of a parent and a child
AssignData(operation, parentId, childId) ==
    [f \in { ParentField(operation), ChildField(operation) } |->
        IF f = ParentField(operation) THEN parentId ELSE childId]

\* catch (error): an APIError is thrown on, anything else becomes DATABASE_ERROR
AssignError(error) ==
    IF error.api THEN error ELSE APIError("INTERNAL_SERVER_ERROR", DATABASE_ERROR)

Callers == { "c1", "c2" }

\* a call that has not begun
AssignCall(operation, parentId, ids) ==
    [ operation |-> operation, parentId |-> parentId, ids |-> ids,
      state |-> "called", chunks |-> << >>, chunk |-> 0, pending |-> {},
      error |-> Undefined, failures |-> {} ]

\* the call begins: nothing to do for no ids, else the creates of the first chunk start
BeginAssign(c) ==
    /\ calls[c].state = "called"
    /\ calls' = [calls EXCEPT ![c] =
          IF Len(@.ids) = 0 THEN [@ EXCEPT !.state = "returned"]
          ELSE LET chunks == chunkArray(@.ids, config.chunkSize)
               IN  [@ EXCEPT !.state = "running", !.chunks = chunks, !.chunk = 1,
                              !.pending = DOMAIN chunks[1]]]
    /\ UNCHANGED <<pc, sortVars, interpolationVars, abilityVars, sanitizerVars, store, config, faults>>

\* the kind of failure the database answered with
FailureKind(created) ==
    IF created.fault THEN "connection"
    ELSE IF created.error.value = UniqueViolation(config.dialect) THEN "unique"
    ELSE "foreign key"

\* one handleIdempotentJunctionAssignment of the current chunk runs its create. The
\* first rejection makes Promise.all reject and the call throw, while the other creates
\* of the chunk still run; when all of the chunk resolved the next chunk starts, or the
\* call returns.
AssignOne(c) ==
    /\ calls[c].pending # {}
    /\ \E i \in calls[c].pending :
       \E created \in CreateOutcomes(store, config, AssignTable(calls[c].operation),
                                     AssignData(calls[c].operation, calls[c].parentId,
                                                calls[c].chunks[calls[c].chunk][i]),
                                     faults < MaxFaults) :
          LET call == calls[c]
              rejects == AssignmentRejects(created)
              state == IF call.state = "running" /\ rejects THEN "threw" ELSE call.state
              last == call.pending = {i}
              next == state = "running" /\ last /\ call.chunk < Len(call.chunks)
          IN  /\ store' = created.store
              /\ faults' = IF created.fault THEN faults + 1 ELSE faults
              /\ calls' = [calls EXCEPT ![c] =
                    [@ EXCEPT
                       !.failures = IF created.error.defined THEN @ \cup { FailureKind(created) } ELSE @,
                       !.error = IF call.state = "running" /\ rejects
                                 THEN Some(AssignError(created.error.value)) ELSE @,
                       !.state = IF state = "running" /\ last /\ ~next THEN "returned" ELSE state,
                       !.chunk = IF next THEN @ + 1 ELSE @,
                       !.pending = IF next THEN DOMAIN call.chunks[call.chunk + 1] ELSE @ \ {i}]]
    /\ UNCHANGED <<pc, sortVars, interpolationVars, abilityVars, sanitizerVars, config>>

\* id lists of up to n ids of a set
RECURSIVE IdLists(_, _)
IdLists(ids, n) ==
    IF n = 0 THEN { << >> }
    ELSE IdLists(ids, n - 1) \cup { Append(l, id) : l \in IdLists(ids, n - 1), id \in ids }

\* a database with the first permission, permission set, user and member, and no
\* junction rows
FreshStore ==
    [ permission |-> { [id |-> "p1"] }, permissionSet |-> { "s1" }, user |-> { "u1" }, member |-> { "m1" },
      permissionPermissionSet |-> EmptyJunction("permissionPermissionSet"),
      memberPermission |-> EmptyJunction("memberPermission"),
      memberPermissionSet |-> EmptyJunction("memberPermissionSet"),
      userPermission |-> EmptyJunction("userPermission"),
      userPermissionSet |-> EmptyJunction("userPermissionSet") ]

\* the properties of the database: createAuthorizationSchema asks for no unique
\* index over the pairs (uniquePairs is TRUE for a database that was given one
\* apart from the schema); references are enforced or not; transactions or none
Configurations ==
    [ uniquePairs : BOOLEAN, foreignKeys : BOOLEAN, transaction : BOOLEAN,
      dialect : Dialects, chunkSize : 1 .. MaxChunkSize, mode : { "both" } ]

InitAssign ==
    /\ pc = "assign"
    /\ store = FreshStore
    /\ config \in Configurations
    /\ faults = 0
    /\ \E operation \in AssignOperations :
       \E parentId \in { "p1", "s1" } \cap IdsOfField(ParentField(operation)) :
       \E ids \in IdLists(IdsOfField(ChildField(operation)), MaxIds) :
       \E id \in IdsOfField(ChildField(operation)) :
          calls = [c \in Callers |->
                     IF c = "c1" THEN AssignCall(operation, parentId, ids)
                     ELSE AssignCall(operation, parentId, <<id>>)]
    /\ permissions = << >> /\ fetched = << >> /\ sorted = << >> /\ reordered = << >>
    /\ rule = Undefined /\ context = Undefined /\ interpolated = Undefined
    /\ ability = Undefined /\ request = Undefined /\ response = Undefined
    /\ validation = Undefined

NextAssign == \E c \in Callers : BeginAssign(c) \/ AssignOne(c)

SpecAssign == InitAssign /\ [][NextAssign]_vars

----------------------------------------------------------------------------
(* Properties of the batchAssign operations *)

Finished(call) == call.state \in { "returned", "threw" } /\ call.pending = {}

\* the junction row the call of a caller asks for, when it names one child id
AskedRow(c) == AssignData(calls[c].operation, calls[c].parentId, calls[c].ids[1])

\* C13: when two batchAssign calls asked for the same pair and both are over, in
\* whatever order their steps ran, neither has thrown and the junction table holds
\* the pair exactly once.
C13_AssignedTwiceOneRow ==
    (/\ pc = "assign" /\ faults = 0
     /\ \A c \in Callers : Finished(calls[c]) /\ Len(calls[c].ids) = 1
     /\ AskedRow("c1") = AskedRow("c2")
     /\ \A f \in DOMAIN AskedRow("c1") : AskedRow("c1")[f] \in IdsIn(store, ReferencedModel(f))) =>
        /\ \A c \in Callers : calls[c].state = "returned"
        /\ store[AssignTable(calls["c1"].operation)][AskedRow("c1")] = 1

\* C20: a batchAssign call one of whose inserts failed for another reason than a
\* uniqueness violation throws; only uniqueness violations are absorbed.
C20_OtherFailuresRaise ==
    pc = "assign" =>
        \A c \in Callers :
            (Finished(calls[c]) /\ calls[c].failures \ { "unique" } # {}) => calls[c].state = "threw"

----------------------------------------------------------------------------
(* adapter: deletePermission, batchDeletePermissions (permission-adapter.ts),   *)
(* deletePermissionSet, batchDeletePermissionSets (permission-set adapter).     *)
(* Each deletes from three junction tables and then from the parent table,      *)
(* inside adapter.transaction when the adapter has one.                         *)

DeleteOperations ==
    { "deletePermission", "batchDeletePermissions", "deletePermissionSet", "batchDeletePermissionSets" }

\* the table of the rows the operation deletes, and the junction field that refers to it
ParentModel(operation) ==
    IF operation \in { "deletePermission", "batchDeletePermissions" } THEN "permission" ELSE "permissionSet"

ReferringField(operation) ==
    IF ParentModel(operation) = "permission" THEN "permissionId" ELSE "permissionSetId"

\* the models of the deleteMany / delete calls of an operation, in the order of the code
\* a cascade that begins with the permission rows
PermissionFirst == << "permission", "userPermission", "memberPermission", "permissionPermissionSet" >>

PermissionCascade == << "userPermission", "memberPermission", "permissionPermissionSet", "permission" >>

\* a cascade that leaves the rows of memberPermissionSet
SetCascadeWithoutMembers == << "userPermissionSet", "permissionPermissionSet", "permissionSet" >>

PermissionSetCascade == << "userPermissionSet", "memberPermissionSet", "permissionPermissionSet", "permissionSet" >>

Cascade(operation) ==
    IF ParentModel(operation) = "permission" THEN PermissionCascade ELSE PermissionSetCascade

\* deleteMany({ model, where: [{ field, operator: "in", value: ids }] }), and delete
\* ({ model, where: [{ field, value: id }] }) for the one id: the rows of the model
\* whose field (id, for a parent table) is among the ids are gone
DeleteWhere(st, model, field, ids) ==
    CASE model = "permission" -> [st EXCEPT !.permission = { row \in @ : row.id \notin ids }]
      [] model = "permissionSet" -> [st EXCEPT !.permissionSet = @ \ ids]
      [] OTHER -> [st EXCEPT ![model] = [row \in DOMAIN @ |-> IF row[field] \in ids THEN 0 ELSE @[row]]]

\* what the database can answer to the step on a model: the rows are deleted, or the
\* call fails for a lost connection, or, on a parent table of a database that enforces
\* references, for a row of another table of the application that refers to it
DeleteOutcomes(st, cfg, operation, model, ids, mayFault) ==
    { [error |-> Undefined, store |-> DeleteWhere(st, model, ReferringField(operation), ids)] }
    \cup (IF mayFault THEN { [error |-> Some(ConnectionLost), store |-> st] } ELSE {})
    \cup (IF mayFault /\ cfg.foreignKeys /\ model = ParentModel(operation)
          THEN { [error |-> Some(ForeignKeyViolation(cfg.dialect)), store |-> st] } ELSE {})

\* catch (error): CONFLICT for what isDuplicateKeyError recognises, else DATABASE_ERROR
DeleteError(error) ==
    IF isDuplicateKeyError(error) THEN APIError("CONFLICT", CONSTRAINT_VIOLATION)
    ELSE APIError("INTERNAL_SERVER_ERROR", DATABASE_ERROR)

\* writes that show at once, transaction or not
WrittenAtOnce(cfg, st, work, done) == work

\* the rows of the tables after a step that left the view work to the operation:
\* inside adapter.transaction the writes show when the callback has returned, and
\* not at all when it threw; without it every write shows at once
Committed(cfg, st, work, done) ==
    IF cfg.transaction THEN (IF done THEN work ELSE st) ELSE work

DeleteCall(operation, ids) ==
    [ operation |-> operation, ids |-> ids, state |-> "called", step |-> 0,
      before |-> Undefined, work |-> Undefined, cause |-> Undefined, error |-> Undefined ]

\* if (ids.length === 0) return 0, else the first step is next
BeginDelete ==
    /\ pc = "delete"
    /\ calls.state = "called"
    /\ calls' = IF Len(calls.ids) = 0 THEN [calls EXCEPT !.state = "returned"]
                ELSE [calls EXCEPT !.state = "running", !.step = 1,
                                   !.before = Some(store), !.work = Some(store)]
    /\ UNCHANGED <<pc, sortVars, interpolationVars, abilityVars, sanitizerVars, store, config, faults>>

\* one deleteMany / delete of the operation
DeleteStep ==
    /\ pc = "delete"
    /\ calls.state = "running"
    /\ LET cascade == Cascade(calls.operation)
           ids == { calls.ids[i] : i \in DOMAIN calls.ids }
       IN  \E answer \in DeleteOutcomes(calls.work.value, config, calls.operation,
                                        cascade[calls.step], ids, faults < MaxFaults) :
              IF answer.error.defined
              THEN /\ calls' = [calls EXCEPT !.state = "threw",
                                             !.cause = answer.error,
                                             !.error = Some(DeleteError(answer.error.value))]
                   /\ store' = Committed(config, store, answer.store, FALSE)
                   /\ faults' = faults + 1
              ELSE /\ calls' = [calls EXCEPT !.work = Some(answer.store),
                                             !.step = @ + 1,
                                             !.state = IF calls.step = Len(cascade) THEN "returned" ELSE @]
                   /\ store' = Committed(config, store, answer.store, calls.step = Len(cascade))
                   /\ faults' = faults
    /\ UNCHANGED <<pc, sortVars, interpolationVars, abilityVars, sanitizerVars, config>>

\* a database with two permissions, two permission sets, a user and a member, where
\* the junction tables of linked hold every pair of them once and the others nothing
LinkedStore(linked) ==
    [ table \in JunctionTables |->
        [ row \in JunctionRows(table) |->
            IF table \in linked /\ \A f \in DOMAIN row : row[f] \in { "p1", "p2", "s1", "s2", "u1", "m1" }
            THEN 1 ELSE 0 ] ]
    @@ [ permission |-> { [id |-> "p1"], [id |-> "p2"] }, permissionSet |-> { "s1", "s2" },
         user |-> { "u1" }, member |-> { "m1" } ]

InitDelete ==
    /\ pc = "delete"
    /\ \E linked \in SUBSET JunctionTables : store = LinkedStore(linked)
    /\ config \in { cfg \in Configurations : ~cfg.uniquePairs /\ cfg.chunkSize = 1 }
    /\ faults = 0
    /\ \E operation \in DeleteOperations :
       \E ids \in IdLists(IdsOfField(ReferringField(operation)), MaxIds) :
          /\ operation \in { "deletePermission", "deletePermissionSet" } => Len(ids) = 1
          /\ calls = DeleteCall(operation, ids)
    /\ permissions = << >> /\ fetched = << >> /\ sorted = << >> /\ reordered = << >>
    /\ rule = Undefined /\ context = Undefined /\ interpolated = Undefined
    /\ ability = Undefined /\ request = Undefined /\ response = Undefined
    /\ validation = Undefined

NextDelete == BeginDelete \/ DeleteStep

SpecDelete == InitDelete /\ [][NextDelete]_vars

----------------------------------------------------------------------------
(* Properties of the delete operations *)

\* the ids the call was given
DeletedIds == { calls.ids[i] : i \in DOMAIN calls.ids }

\* the junction rows of a state of the tables that refer to one of the ids through field
ReferringRows(st, field, ids) ==
    { <<table, row>> \in UNION { { <<t, r>> : r \in JunctionRows(t) } : t \in JunctionTables } :
        /\ field \in JunctionFields(table)
        /\ st[table][row] > 0
        /\ row[field] \in ids }

\* C14: after deletePermissionSet or batchDeletePermissionSets has returned, no row
\* of userPermissionSet, memberPermissionSet or permissionPermissionSet refers to a
\* deleted id and no permission set with a deleted id is left.
C14_NothingRefersToDeletedSet ==
    (pc = "delete" /\ ParentModel(calls.operation) = "permissionSet" /\ calls.state = "returned") =>
        /\ ReferringRows(store, "permissionSetId", DeletedIds) = {}
        /\ store.permissionSet \cap DeletedIds = {}

\* a delete of permission sets has returned that found rows of all three junction
\* tables referring to a set it was given, while rows of the other set are still there
C14_Witness ==
    /\ pc = "delete" /\ ParentModel(calls.operation) = "permissionSet" /\ calls.state = "returned"
    /\ DeletedIds = { "s1" }
    /\ { tr[1] : tr \in ReferringRows(calls.before.value, "permissionSetId", DeletedIds) } =
          { "userPermissionSet", "memberPermissionSet", "permissionPermissionSet" }
    /\ ReferringRows(store, "permissionSetId", { "s2" }) # {}

\* the permissions that were there when the call began and are not in a state of the tables
RemovedPermissions(st) == IdsIn(calls.before.value, "permission") \ IdsIn(st, "permission")

\* C15: at every step of deletePermission and batchDeletePermissions, neither the
\* tables nor the view the operation works on hold a row of userPermission,
\* memberPermission or permissionPermissionSet that refers to a permission whose
\* row the operation has removed.
C15_JunctionRowsGoFirst ==
    (pc = "delete" /\ ParentModel(calls.operation) = "permission" /\ calls.before.defined) =>
        \A st \in { store, calls.work.value } :
            ReferringRows(st, "permissionId", RemovedPermissions(st)) = {}

\* a delete of the first permission has returned that found rows of all three
\* junction tables referring to it; the permission row is gone
C15_Witness ==
    /\ pc = "delete" /\ ParentModel(calls.operation) = "permission" /\ calls.state = "returned"
    /\ DeletedIds = { "p1" }
    /\ { tr[1] : tr \in ReferringRows(calls.before.value, "permissionId", DeletedIds) } =
          { "userPermission", "memberPermission", "permissionPermissionSet" }
    /\ RemovedPermissions(store) = { "p1" }

\* the tables when every junction row that refers to one of the ids, and the rows of
\* the ids themselves, are gone from them
AllDeleted(st, operation, ids) ==
    [ t \in DOMAIN st |->
        IF t \in JunctionTables
        THEN [ row \in DOMAIN st[t] |->
                 IF ReferringField(operation) \in DOMAIN row /\ row[ReferringField(operation)] \in ids
                 THEN 0 ELSE st[t][row] ]
        ELSE IF t # ParentModel(operation) THEN st[t]
        ELSE IF t = "permission" THEN { row \in st[t] : row.id \notin ids }
        ELSE st[t] \ ids ]

\* with transactions, the tables are as they were when the cascade began or as they
\* are when all of it is done, and as they were when it threw
Atomic ==
    /\ store \in { calls.before.value, AllDeleted(calls.before.value, calls.operation, DeletedIds) }
    /\ calls.state # "returned" => store = calls.before.value
    /\ calls.state = "returned" => store = AllDeleted(calls.before.value, calls.operation, DeletedIds)

\* C16 as stated: with transactions a cascade delete shows all of its deletions or
\* none, and when a step fails it throws DATABASE_ERROR and the tables are as before.
C16_AtomicAndDatabaseError ==
    (pc = "delete" /\ config.transaction /\ calls.before.defined) =>
        /\ Atomic
        /\ calls.state = "threw" => calls.error.value.message = DATABASE_ERROR

\* C16, amended: with transactions a cascade delete shows all of its deletions or
\* none, and when a step fails the tables are as before and it throws CONFLICT with
\* CONSTRAINT_VIOLATION for a foreign-key failure (a failure isDuplicateKeyError
\* recognises), INTERNAL_SERVER_ERROR with DATABASE_ERROR for a lost connection.
C16_AtomicAndConflictOrDatabaseError ==
    (pc = "delete" /\ config.transaction /\ calls.before.defined) =>
        /\ Atomic
        /\ calls.state = "threw" =>
              calls.error.value =
                 IF calls.cause.value = ConnectionLost
                 THEN APIError("INTERNAL_SERVER_ERROR", DATABASE_ERROR)
                 ELSE APIError("CONFLICT", CONSTRAINT_VIOLATION)

\* a cascade in a transaction failed at its last step, for a foreign key, after its
\* deleteMany calls had deleted rows: the tables are as before
C16_Witness ==
    /\ pc = "delete" /\ config.transaction /\ calls.state = "threw"
    /\ calls.step = Len(Cascade(calls.operation))
    /\ calls.cause.value = ForeignKeyViolation(config.dialect)
    /\ calls.work.value # calls.before.value
    /\ store = calls.before.value

----------------------------------------------------------------------------
(* adapter: getUserPermissions, getUserPermissionSets, getMemberPermissions,    *)
(* getMemberPermissionSets (generic adapter), batchGetPermissionsForPermission- *)
(* Sets (permission-set adapter), and utils.ts: fetchSortedPermissions.         *)
(* findMany answers in the order of the ids; sortPermissionsByPriority orders   *)
(* the result at the end. maxRelationLimit is above the number of rows here.    *)

PermissionOrder == << "p1", "p2" >>
PermissionSetOrder == << "s1", "s2" >>

\* the direct tag and the permission-set tag of a holder, the junction tables of its
\* permissions and permission sets, and the field of its id in them
DirectSource(holder) ==
    IF holder = "user" THEN permissionSource.USER_DIRECT ELSE permissionSource.MEMBER_DIRECT

PermissionSetSource(holder) ==
    IF holder = "user" THEN permissionSource.USER_PERMISSION_SET ELSE permissionSource.MEMBER_PERMISSION_SET

HolderField(holder) == IF holder = "user" THEN "userId" ELSE "memberId"

DirectTable(holder) == IF holder = "user" THEN "userPermission" ELSE "memberPermission"

PermissionSetTable(holder) == IF holder = "user" THEN "userPermissionSet" ELSE "memberPermissionSet"

\* a junction row of two fields
Pair(f, v, g, w) == [x \in { f, g } |-> IF x = f THEN v ELSE w]

\* convertDbPermissionToRule: the stored fields and conditions are null here
convertDbPermissionToRule(permission, source) ==
    [ id |-> << permission.id >>, source |-> source, inverted |-> permission.inverted,
      fields |-> Undefined, conditions |-> Undefined,
      createdAt |-> permission.createdAt, updatedAt |-> Undefined,
      expiresAt |-> permission.expiresAt, action |-> "read", subject |-> "post" ]

\* the where of getUserPermissions and getMemberPermissions: id in permissionIds,
\* and (the clauses with connector OR) expiresAt = null or expiresAt > new Date()
DirectWhere(permission, permissionIds, now) ==
    /\ permission.id \in permissionIds
    /\ \/ ~permission.expiresAt.defined
       \/ permission.expiresAt.value > now

\* a where that asks for the id alone
IdWhere(permission, permissionIds, now) == permission.id \in permissionIds

\* getUserPermissions(userId) / getMemberPermissions(memberId)
getDirectPermissions(st, holder, id, now) ==
    LET permissionIds == { p \in PermissionIds : st[DirectTable(holder)][Pair(HolderField(holder), id, "permissionId", p)] > 0 }
        Found(p) == \E row \in st.permission : row.id = p /\ DirectWhere(row, permissionIds, now)
        found == SelectSeq(PermissionOrder, Found)
    IN  [ i \in DOMAIN found |->
            convertDbPermissionToRule(CHOOSE row \in st.permission : row.id = found[i], DirectSource(holder)) ]

\* getUserPermissionSets(userId) / getMemberPermissionSets(memberId), mapped to permissionSetId
getPermissionSetIds(st, holder, id) ==
    LET Held(s) == st[PermissionSetTable(holder)][Pair(HolderField(holder), id, "permissionSetId", s)] > 0
    IN  SelectSeq(PermissionSetOrder, Held)

\* batchGetPermissionsForPermissionSets, one chunk of permission set ids: the links
\* of the sets of the chunk are read, then their permissions, and for every set
\* that has one the list of its permission rows is filed under the set
GroupedOfChunk(st, chunk) ==
    LET Linked(s, p) ==
            /\ st.permissionPermissionSet[Pair("permissionId", p, "permissionSetId", s)] > 0
            /\ IdWhere([id |-> p], IdsIn(st, "permission"), 0)
        HasPermissions(s) == \E p \in PermissionIds : Linked(s, p)
        sets == SelectSeq(chunk, HasPermissions)
    IN  [ i \in DOMAIN sets |->
            LET OfSet(p) == Linked(sets[i], p)
                ids == SelectSeq(PermissionOrder, OfSet)
            IN  [ j \in DOMAIN ids |-> CHOOSE row \in st.permission : row.id = ids[j] ] ]

\* for (const chunk of chunks): the lists of the chunks, in the order of the chunks
RECURSIVE GroupedFrom(_, _, _)
GroupedFrom(st, chunks, i) ==
    IF i > Len(chunks) THEN << >>
    ELSE GroupedOfChunk(st, chunks[i]) \o GroupedFrom(st, chunks, i + 1)

\* batchGetPermissionsForPermissionSets: the values of the record it returns
batchGetPermissionsForPermissionSets(st, permissionSetIds, chunkSize) ==
    GroupedFrom(st, chunkArray(permissionSetIds, chunkSize), 1)

\* a flattening that keeps every item of every list
RECURSIVE ConcatFrom(_, _)
ConcatFrom(lists, i) == IF i > Len(lists) THEN << >> ELSE lists[i] \o ConcatFrom(lists, i + 1)

FlattenKeepingAll(recordOfArrays) == ConcatFrom(recordOfArrays, 1)

\* flattenGroupedRecords: the items of the lists, each id once
RECURSIVE FlattenFrom(_, _, _, _)
FlattenFrom(lists, i, j, seen) ==
    IF i > Len(lists) THEN << >>
    ELSE IF j > Len(lists[i]) THEN FlattenFrom(lists, i + 1, 1, seen)
    ELSE IF lists[i][j].id \in seen THEN FlattenFrom(lists, i, j + 1, seen)
    ELSE << lists[i][j] >> \o FlattenFrom(lists, i, j + 1, seen \cup { lists[i][j].id })

flattenGroupedRecords(recordOfArrays) == FlattenFrom(recordOfArrays, 1, 1, {})

\* a block that looks at the id alone
BlockRunsInAnyMode(mode, holder, id) == id.defined

\* (mode === "user" || mode === "both") && userId, and the same for the member
BlockRuns(mode, holder, id) == mode \in { holder, "both" } /\ id.defined

\* what one block of fetchSortedPermissions pushes to allPermissions
FetchedFor(st, chunkSize, mode, holder, id, now) ==
    IF ~BlockRuns(mode, holder, id) THEN << >>
    ELSE LET direct == getDirectPermissions(st, holder, id.value, now)
             permissionSetIds == getPermissionSetIds(st, holder, id.value)
             rows == flattenGroupedRecords(batchGetPermissionsForPermissionSets(st, permissionSetIds, chunkSize))
         IN  direct \o [ i \in DOMAIN rows |-> convertDbPermissionToRule(rows[i], PermissionSetSource(holder)) ]

allPermissions(st, chunkSize, mode, userId, memberId, now) ==
    FetchedFor(st, chunkSize, mode, "user", userId, now) \o FetchedFor(st, chunkSize, mode, "member", memberId, now)

fetchSortedPermissions(st, chunkSize, mode, userId, memberId, now) ==
    sortPermissionsByPriority(allPermissions(st, chunkSize, mode, userId, memberId, now))

----------------------------------------------------------------------------
(* fetchSortedPermissions run on a database *)

\* the time of the fetch, new Date()
Now == 1

ExpiresAtValues == { Undefined } \cup { Some(t) : t \in 0 .. MaxTime }

\* databases with one user and one member, two permissions of which the first
\* expires at any time or never and the second long ago or never, and two
\* permission sets; the junction tables hold any rows between them
FetchStores ==
    { [ permission |-> { [id |-> "p1", createdAt |-> 1, expiresAt |-> e1, inverted |-> FALSE],
                         [id |-> "p2", createdAt |-> 2, expiresAt |-> e2, inverted |-> TRUE] },
        permissionSet |-> { "s1", "s2" }, user |-> { "u1" }, member |-> { "m1" },
        userPermission |-> [row \in JunctionRows("userPermission") |-> IF row.userId = "u1" /\ row.permissionId \in up THEN 1 ELSE 0],
        memberPermission |-> [row \in JunctionRows("memberPermission") |-> IF row.memberId = "m1" /\ row.permissionId \in mp THEN 1 ELSE 0],
        userPermissionSet |-> [row \in JunctionRows("userPermissionSet") |-> IF row.userId = "u1" /\ row.permissionSetId \in us THEN 1 ELSE 0],
        memberPermissionSet |-> [row \in JunctionRows("memberPermissionSet") |-> IF row.memberId = "m1" /\ row.permissionSetId \in ms THEN 1 ELSE 0],
        permissionPermissionSet |-> [row \in JunctionRows("permissionPermissionSet") |-> IF row \in pps THEN 1 ELSE 0] ] :
        e1 \in ExpiresAtValues, e2 \in { Undefined, Some(0) },
        up \in SUBSET PermissionIds, mp \in SUBSET PermissionIds,
        us \in { {}, { "s1" }, { "s1", "s2" } }, ms \in { {}, { "s2" }, { "s1", "s2" } },
        pps \in SUBSET JunctionRows("permissionPermissionSet") }

InitFetch ==
    /\ pc = "fetch"
    /\ store \in FetchStores
    /\ \E mode \in { "user", "member", "both" } :
       \E cfg \in Configurations :
          /\ ~cfg.uniquePairs /\ cfg.foreignKeys /\ cfg.transaction
          /\ cfg.dialect = "sqlite"
          /\ config = [cfg EXCEPT !.mode = mode]
    /\ request \in { Some([userId |-> u, memberId |-> m]) :
                       u \in { Undefined, Some("u1") }, m \in { Undefined, Some("m1") } }
    /\ calls = Undefined /\ faults = 0
    /\ permissions = << >> /\ fetched = << >> /\ sorted = << >> /\ reordered = << >>
    /\ rule = Undefined /\ context = Undefined /\ interpolated = Undefined
    /\ ability = Undefined /\ response = Undefined
    /\ validation = Undefined

\* fetchSortedPermissions(adapter, options.mode, userId, memberId)
Fetch ==
    /\ pc = "fetch"
    /\ pc' = "fetched"
    /\ fetched' = allPermissions(store, config.chunkSize, config.mode, request.value.userId, request.value.memberId, Now)
    /\ sorted' = fetchSortedPermissions(store, config.chunkSize, config.mode, request.value.userId, request.value.memberId, Now)
    /\ UNCHANGED <<permissions, reordered, interpolationVars, abilityVars, sanitizerVars, storeVars>>

NextFetch == Fetch

SpecFetch == InitFetch /\ [][NextFetch]_vars

----------------------------------------------------------------------------
(* Properties of fetchSortedPermissions *)

\* the id of the user or the member the fetch was asked for
AskedId(holder) == request.value[HolderField(holder)]

\* the stored permission of an id
PermissionRow(p) == CHOOSE row \in store.permission : row.id = p

\* the permission expires after the fetch or never
Live(p) == PermissionRow(p).expiresAt.defined => PermissionRow(p).expiresAt.value > Now

\* permission p is linked to the holder by a row of its direct junction table, or
\* to a permission set that a row of its permission-set junction table links it to
ReachedDirectly(holder, id, p) ==
    store[DirectTable(holder)][Pair(HolderField(holder), id, "permissionId", p)] > 0

ReachedThroughSet(holder, id, p) ==
    \E s \in PermissionSetIds :
        /\ store[PermissionSetTable(holder)][Pair(HolderField(holder), id, "permissionSetId", s)] > 0
        /\ store.permissionPermissionSet[Pair("permissionId", p, "permissionSetId", s)] > 0

Returned(p, source) == \E i \in DOMAIN sorted : sorted[i].id = << p >> /\ sorted[i].source = source

\* C17: no rule that fetchSortedPermissions returned has an expiresAt before the
\* time of the fetch, whichever of the four sources it came from.
C17_NoExpiredRuleReturned ==
    pc = "fetched" =>
        \A i \in DOMAIN sorted : sorted[i].expiresAt.defined => ~(sorted[i].expiresAt.value < Now)

\* C18: fetchSortedPermissions returns rules with a user tag only when mode is user or
\* both and a userId was given, and rules with a member tag only when mode is member
\* or both and a memberId was given; a returned rule tagged as direct is linked to
\* that user (member) by a userPermission (memberPermission) row, one tagged as
\* permission set is linked to one of the permission sets of that user (member); a
\* permission that expires after the fetch or never is returned with the tag of
\* every way it is reached by when the block of its holder runs; no permission is
\* returned twice with the same tag.
C18_SourcesByModeAndLink ==
    pc = "fetched" =>
        /\ \A holder \in { "user", "member" } :
              /\ \A i \in DOMAIN sorted :
                    sorted[i].source \in { DirectSource(holder), PermissionSetSource(holder) } =>
                        config.mode \in { holder, "both" } /\ AskedId(holder).defined
              /\ \A i \in DOMAIN sorted :
                    /\ sorted[i].source = DirectSource(holder) =>
                          ReachedDirectly(holder, AskedId(holder).value, sorted[i].id[1])
                    /\ sorted[i].source = PermissionSetSource(holder) =>
                          ReachedThroughSet(holder, AskedId(holder).value, sorted[i].id[1])
              /\ (config.mode \in { holder, "both" } /\ AskedId(holder).defined) =>
                    \A p \in PermissionIds :
                        Live(p) =>
                            /\ ReachedDirectly(holder, AskedId(holder).value, p) =>
                                  Returned(p, DirectSource(holder))
                            /\ ReachedThroughSet(holder, AskedId(holder).value, p) =>
                                  Returned(p, PermissionSetSource(holder))
        /\ \A i, j \in DOMAIN sorted :
              (sorted[i].id = sorted[j].id /\ sorted[i].source = sorted[j].source) => i = j

\* a fetch in mode both for a user and a member returned the first permission with
\* all four tags, the permission being in both sets of the user
C18_Witness ==
    /\ pc = "fetched" /\ config.mode = "both"
    /\ \A source \in PermissionSources : Returned("p1", source)
    /\ \A s \in PermissionSetIds :
          /\ store.userPermissionSet[Pair("userId", "u1", "permissionSetId", s)] > 0
          /\ store.permissionPermissionSet[Pair("permissionId", "p1", "permissionSetId", s)] > 0

----------------------------------------------------------------------------
(* middleware.ts: createAuthorizationMiddleware, the middleware that every     *)
(* endpoint of the plugin runs before its handler.                             *)

\* constants/routes: some of ROUTES. The routes answer to POST but the last two,
\* which answer to GET and read their input from the query string
ROUTES ==
    { << "/", "create-permission" >>, << "/", "check-permission" >>,
      << "/", "list-permissions" >>, << "/", "get-permission" >> }

\* types.ts: ProtectedRoutes, the routes but /get-ability and /check-permission
ProtectedRoutes == ROUTES \ { << "/", "check-permission" >> }

\* ctx.context.baseURL
BaseURL == << "http://localhost:3000", "/", "api", "/", "auth" >>

\* string.replace(pattern, ""): the first occurrence of a pattern string is cut out
ReplaceByNothing(string, pattern) ==
    LET at == IndexOf(string, pattern, 1)
    IN  IF at = 0 THEN string
        ELSE SubSeq(string, 1, at - 1) \o SubSeq(string, at + Len(pattern), Len(string))

\* protectedRoutes.includes(route) ?? protectedRoutes === "all": includes is that of
\* the array or, for "all", that of the string, and answers a boolean either way, so
\* that the right side of ?? is never looked at
shouldProtectRoute(protectedRoutes, route) ==
    IF protectedRoutes.t = "string" THEN Includes(protectedRoutes.s, route)
    ELSE \E i \in DOMAIN protectedRoutes.a : protectedRoutes.a[i] = route

\* the callbacks of an application: what they do with can and the route
Callbacks ==
    { "can read post", "true", "false", "one", "undefined", "throws Error", "throws APIError" }

\* routeCallback(can, route): the value returned, or the error thrown
CallbackOutcome(callback, rules) ==
    CASE callback = "can read post" ->
            [threw |-> FALSE, value |-> Bool(can(rules, "read", BareSubject("post"), Undefined))]
      [] callback = "true" -> [threw |-> FALSE, value |-> Bool(TRUE)]
      [] callback = "false" -> [threw |-> FALSE, value |-> Bool(FALSE)]
      [] callback = "one" -> [threw |-> FALSE, value |-> Num(1)]
      [] callback = "undefined" -> [threw |-> FALSE, value |-> Undef]
      [] callback = "throws Error" -> [threw |-> TRUE, error |-> RawError(<< "boom" >>)]
      [] callback = "throws APIError" ->
            [threw |-> TRUE, error |-> APIError("BAD_REQUEST", << "no", "such", "route" >>)]

\* what the middleware answers: the context the handler runs with, or the APIError
Proceeds(built, called) == [status |-> "OK", ability |-> built, called |-> called]
Throws(status, message, called) == [status |-> status, message |-> message, called |-> called]

\* { member, organization, user: { id: session.session.userId, ...session.user } }
routeEvaluationContext(req) ==
    Obj([ k \in { "user" } \cup (IF req.member.defined THEN { "member" } ELSE {}) |->
            IF k = "user"
            THEN Obj([ j \in { "id", "isSuperAdmin" } |->
                         IF j = "id" THEN Str(<< req.userId.value >>) ELSE Bool(req.isSuperAdmin) ])
            ELSE Obj([ j \in { "id" } |-> Str(<< req.member.value >>) ]) ])

\* if (routeCallback) { try { ... } catch (error) { ... } } return { ability, ... }
routeAuthorization(callback, built) ==
    LET outcome == CallbackOutcome(callback, built.rules)
    IN  IF outcome.threw
        THEN (IF outcome.error.api THEN Throws(outcome.error.status, outcome.error.message, TRUE)
              ELSE Throws("FORBIDDEN", "AUTHORIZATION_FAILED", TRUE))
        ELSE IF outcome.value.t # "boolean" THEN Throws("FORBIDDEN", "ACCESS_DENIED_ROUTE", TRUE)
        ELSE IF ~outcome.value.b THEN Throws("FORBIDDEN", "ACCESS_DENIED_ROUTE", TRUE)
        ELSE Proceeds(Some(built), TRUE)

\* the middleware on a request
authorizationMiddleware(st, options, req) ==
    IF ~req.userId.defined THEN Throws("UNAUTHORIZED", "INVALID_SESSION", FALSE)
    ELSE LET route == ReplaceByNothing(req.url, BaseURL)
             isAuthRoute == route \in ROUTES
             protect == /\ options.routeMiddleware.defined
                        /\ isAuthRoute
                        /\ shouldProtectRoute(options.routeMiddleware.value.protectedRoutes, route)
         IN  IF ~protect \/ req.isSuperAdmin THEN Proceeds(Undefined, FALSE)
             ELSE IF options.mode = "member" /\ ~req.member.defined
             THEN Throws("FORBIDDEN", "INVALID_ORGANIZATION_CONTEXT", FALSE)
             ELSE LET fetchedPermissions == fetchSortedPermissions(st, options.chunkSize, options.mode, req.userId, req.member, Now)
                      built == createAbilityFromPermissions(fetchedPermissions, routeEvaluationContext(req))
                  IN  routeAuthorization(options.routeMiddleware.value.callback, built)

----------------------------------------------------------------------------
(* The middleware run on a request *)

\* ctx.request.url: the base URL, the path of the endpoint and, for a GET with input, the query string
QueryStrings == { << >>, << "?", "limit", "=", "10" >> }

RequestUrls == { BaseURL \o path \o query : path \in ROUTES, query \in QueryStrings }

ProtectedRoutesValues ==
    { Str(<< "all" >>), Arr(<< >>), Arr(<< << "/", "create-permission" >> >>),
      Arr(<< << "/", "create-permission" >>, << "/", "list-permissions" >> >>) }

RouteMiddlewares ==
    { Undefined } \cup
    { Some([protectedRoutes |-> routes, callback |-> callback]) :
        routes \in ProtectedRoutesValues, callback \in Callbacks }

\* the user holds the first permission (read post), the second (cannot read post), both or none
RouteStores ==
    { st \in FetchStores :
        /\ \A row \in st.permission : ~row.expiresAt.defined
        /\ \A table \in JunctionTables \ { "userPermission" } :
              \A row \in DOMAIN st[table] : st[table][row] = 0 }

InitRoute ==
    /\ pc = "route"
    /\ store \in RouteStores
    /\ \E mode \in { "user", "member", "both" }, routeMiddleware \in RouteMiddlewares :
          config = [mode |-> mode, chunkSize |-> MaxChunkSize, routeMiddleware |-> routeMiddleware]
    /\ request \in { Some([url |-> url, userId |-> userId, isSuperAdmin |-> admin, member |-> member]) :
                       url \in RequestUrls, userId \in { Undefined, Some("u1") },
                       admin \in BOOLEAN, member \in { Undefined, Some("m1") } }
    /\ response = Undefined
    /\ calls = Undefined /\ faults = 0
    /\ permissions = << >> /\ fetched = << >> /\ sorted = << >> /\ reordered = << >>
    /\ rule = Undefined /\ context = Undefined /\ interpolated = Undefined
    /\ ability = Undefined
    /\ validation = Undefined

\* the middleware runs; the handler of the endpoint runs when it did not throw
Authorize ==
    /\ pc = "route"
    /\ pc' = "routed"
    /\ response' = Some(authorizationMiddleware(store, config, request.value))
    /\ UNCHANGED <<sortVars, interpolationVars, ability, request, sanitizerVars, storeVars>>

NextRoute == Authorize

SpecRoute == InitRoute /\ [][NextRoute]_vars

----------------------------------------------------------------------------
(* Properties of the middleware *)

\* the path of the request: the URL without the base URL and the query string
RequestPath == CHOOSE path \in ROUTES : \E query \in QueryStrings : request.value.url = BaseURL \o path \o query

\* the configuration protects the route of the request
ProtectedByConfiguration ==
    /\ config.routeMiddleware.defined
    /\ LET routes == config.routeMiddleware.value.protectedRoutes
       IN  IF routes.t = "string" THEN RequestPath \in ProtectedRoutes
           ELSE \E i \in DOMAIN routes.a : routes.a[i] = RequestPath

\* what the configured callback returns or throws for the rules of the user
AskedCallback ==
    CallbackOutcome(config.routeMiddleware.value.callback,
                    createAbilityFromPermissions(
                        fetchSortedPermissions(store, config.chunkSize, config.mode, request.value.userId, request.value.member, Now),
                        routeEvaluationContext(request.value)).rules)

ReturnsTrue(outcome) == ~outcome.threw /\ outcome.value = Bool(TRUE)

\* C19: a request of a user with a session who is no super admin to a route the
\* configuration protects (listed in protectedRoutes, or any protected route for
\* "all"; with a query string or without) proceeds only when the callback was
\* called and returned true, and ends with FORBIDDEN otherwise.
C19_ProtectedRouteAsksCallback ==
    (/\ pc = "routed"
     /\ request.value.userId.defined /\ ~request.value.isSuperAdmin
     /\ ProtectedByConfiguration) =>
        /\ response.value.status = "OK" => response.value.called /\ ReturnsTrue(AskedCallback)
        /\ ~ReturnsTrue(AskedCallback) => response.value.status = "FORBIDDEN"

----------------------------------------------------------------------------
(* The chunks of the batchAssign operations *)

\* the inserts of a call that have started and not settled
InFlight(call) == IF call.state = "called" THEN {} ELSE call.pending

----------------------------------------------------------------------------
(* The nested objects of the sanitized context *)

\* the keys of the objects of a value, at every depth
RECURSIVE ObjectKeys(_)
ObjectKeys(value) ==
    IF value.t # "object" THEN {}
    ELSE DOMAIN value.o \cup UNION { ObjectKeys(value.o[key]) : key \in DOMAIN value.o }

----------------------------------------------------------------------------
(* The keys of the interpolated conditions *)

\* the paths to the properties of a value: the keys of its objects and the indexes
\* of its arrays on the way
RECURSIVE KeyPaths(_)
KeyPaths(value) ==
    CASE value.t = "object" ->
            UNION { { << key >> } \cup { << key >> \o path : path \in KeyPaths(value.o[key]) } :
                    key \in DOMAIN value.o }
      [] value.t = "array" ->
            UNION { { << ToString(i) >> } \cup { << ToString(i) >> \o path : path \in KeyPaths(value.a[i]) } :
                    i \in DOMAIN value.a }
      [] OTHER -> {}

NamesDangerousKey(path) == \E i \in DOMAIN path : path[i] \in DangerousKeys

\* C23: the conditions interpolateConditions returns have no dangerous key at any
\* depth, in objects and in the items of arrays: their properties are those of the
\* stored conditions that are not under a dangerous key.
C23_DangerousKeysDroppedAtAnyDepth ==
    (pc = "interpolated" /\ rule.conditions.defined) =>
        KeyPaths(Obj(interpolated.conditions.value)) =
            { path \in KeyPaths(Obj(rule.conditions.value)) : ~NamesDangerousKey(path) }

\* conditions with a dangerous key in an object of an array were interpolated and
\* the other key of that object is there
C23_Witness ==
    /\ pc = "interpolated" /\ rule.conditions.defined
    /\ << "tags", "1", "prototype" >> \in KeyPaths(Obj(rule.conditions.value))
    /\ << "tags", "1", "name" >> \in KeyPaths(Obj(interpolated.conditions.value))
    /\ interpolated.conditions.value # rule.conditions.value


----------------------------------------------------------------------------
(* Properties of createAbilityFromPermissions as a whole *)

\* C24 as stated: createAbilityFromPermissions returns for every list and context: it
\* raises nothing, and the ability holds one rule for every rule of the list that was
\* not skipped, in list order (no rule of these lists raises while it is interpolated
\* or registered, so none is skipped).
C24_NeverPropagatesAnError ==
    pc \in {"ability", "threw"} =>
        /\ ~ability.threw
        /\ Len(ability.rules) = Len(permissions)
        /\ \A i \in DOMAIN permissions :
              /\ ability.rules[i].action = permissions[i].action
              /\ ability.rules[i].subject = permissions[i].subject
              /\ ability.rules[i].inverted = permissions[i].inverted


----------------------------------------------------------------------------
(* Properties of the permissions of permission sets *)

\* the permission sets the holder has that permission p is linked into
SetsWith(holder, id, p) ==
    { s \in PermissionSetIds :
        /\ store[PermissionSetTable(holder)][Pair(HolderField(holder), id, "permissionSetId", s)] > 0
        /\ store.permissionPermissionSet[Pair("permissionId", p, "permissionSetId", s)] > 0 }

\* the positions of the result that hold permission p with a source
Entries(p, source) == { i \in DOMAIN sorted : sorted[i].id = << p >> /\ sorted[i].source = source }

\* C25: a permission that is linked into two or more permission sets of the user
\* (member) the fetch runs for is in the result of fetchSortedPermissions exactly
\* once with source user_permission_set (member_permission_set), whether the sets
\* are read in one chunk or in several.
C25_OncePerSetSource ==
    pc = "fetched" =>
        \A holder \in { "user", "member" } :
            (config.mode \in { holder, "both" } /\ AskedId(holder).defined) =>
                \A p \in PermissionIds :
                    Cardinality(SetsWith(holder, AskedId(holder).value, p)) >= 2 =>
                        Cardinality(Entries(p, PermissionSetSource(holder))) = 1

\* the two sets of the user were read in two chunks and both hold the first
\* permission, which the result holds once for them
C25_Witness ==
    /\ pc = "fetched" /\ config.mode = "user" /\ config.chunkSize = 1
    /\ AskedId("user").defined
    /\ SetsWith("user", AskedId("user").value, "p1") = { "s1", "s2" }
    /\ Len(chunkArray(getPermissionSetIds(store, "user", "u1"), config.chunkSize)) = 2
    /\ Cardinality(Entries("p1", permissionSource.USER_PERMISSION_SET)) = 1


----------------------------------------------------------------------------
(* utils/error-handling: handleAuthorizationError, and the check-permission     *)
(* handler run on a store whose reads can fail                                  *)

INTERNAL_SERVER_ERROR == <<"Internal", "server", "error">>

\* an APIError is thrown on as it is, any other error as an APIError BAD_REQUEST with
\* the message of INTERNAL_SERVER_ERROR: the function returns for no error
handleAuthorizationError(error) ==
    [ threw |-> TRUE,
      error |-> IF error.api THEN error ELSE APIError("BAD_REQUEST", INTERNAL_SERVER_ERROR) ]

\* what getUserPermissions and the other reads of the adapter throw when
\* adapter.findMany raises
ReadError == APIError("INTERNAL_SERVER_ERROR", DATABASE_ERROR)

InitCheckStore ==
    /\ pc = "request"
    /\ \/ fetched = << >>
       \/ \E a \in CheckedRules : fetched = Numbered(<<a>>)
       \/ \E a, b \in CheckedRules : fetched = Numbered(<<a, b>>)
    /\ request \in Requests
    /\ faults = 0
    /\ permissions = << >> /\ sorted = << >> /\ reordered = << >>
    /\ rule = Undefined /\ context = Undefined /\ interpolated = Undefined
    /\ ability = Undefined /\ response = Undefined
    /\ store = Undefined /\ config = Undefined /\ calls = Undefined
    /\ validation = Undefined

\* checkPermissionHandler when a read of fetchSortedPermissions raises: the catch
\* hands the error to handleAuthorizationError
CheckPermissionReadFails ==
    /\ pc = "request"
    /\ faults < MaxFaults
    /\ faults' = faults + 1
    /\ response' = handleAuthorizationError(ReadError)
    /\ pc' = "response"
    /\ UNCHANGED <<sortVars, interpolationVars, ability, request, sanitizerVars, store, config, calls>>

\* checkPermissionHandler when the reads succeed; an error of build() reaches the
\* same catch
CheckPermissionReads ==
    /\ pc = "request"
    /\ permissions' = sortPermissionsByPriority(fetched)
    /\ sorted' = permissions'
    /\ context' = evaluationContext(request)
    /\ ability' = createAbilityFromPermissions(sorted', context')
    /\ response' = IF ability'.threw
                   THEN handleAuthorizationError(RawError(<<"rawRule.fields", "cannot", "be", "an", "empty", "array">>))
                   ELSE checkPermissionResponse(request, sorted', ability')
    /\ pc' = "response"
    /\ UNCHANGED <<fetched, reordered, rule, interpolated, request, sanitizerVars, storeVars>>

NextCheckStore == CheckPermissionReadFails \/ CheckPermissionReads

SpecCheckStore == InitCheckStore /\ [][NextCheckStore]_vars

\* the evaluation of the request failed: a read raised or the ability was not built
EvaluationFailed == faults > 0 \/ (pc = "response" /\ faults = 0 /\ ability.threw)

\* C26 as stated: when the evaluation of a check-permission request fails, the
\* handler returns a response with allowed = false and a reason and raises nothing.
C26_FailureAnswersDenial ==
    (pc = "response" /\ EvaluationFailed) =>
        /\ ~response.threw
        /\ ~response.allowed
        /\ response.reason.defined


----------------------------------------------------------------------------
(* adapter: batchRemoveUsersFromPermission, batchRemoveMembersFromPermission    *)
(* (permission-adapter.ts), batchRemoveUsersFromPermissionSet,                  *)
(* batchRemoveMembersFromPermissionSet and batchRemovePermissionsFromPermissionSet *)
(* (permission-set adapter). Each runs one deleteMany per child id, all at once *)
(* with Promise.all, inside adapter.transaction when the adapter has one.       *)

RemoveOperations ==
    { "batchRemoveUsersFromPermission", "batchRemoveMembersFromPermission",
      "batchRemoveUsersFromPermissionSet", "batchRemoveMembersFromPermissionSet",
      "batchRemovePermissionsFromPermissionSet" }

\* the batchAssign operation on the same junction table and fields
AssignOf(operation) ==
    CASE operation = "batchRemoveUsersFromPermission" -> "batchAssignUsersToPermission"
      [] operation = "batchRemoveMembersFromPermission" -> "batchAssignMembersToPermission"
      [] operation = "batchRemoveUsersFromPermissionSet" -> "batchAssignUsersToPermissionSet"
      [] operation = "batchRemoveMembersFromPermissionSet" -> "batchAssignMembersToPermissionSet"
      [] operation = "batchRemovePermissionsFromPermissionSet" -> "batchAssignPermissionsToPermissionSet"

RemoveTable(operation) == AssignTable(AssignOf(operation))

\* where: [{ field: parent field, value: parentId }, { field: child field, value: childId }]
RemoveWhere(operation, parentId, childId) == AssignData(AssignOf(operation), parentId, childId)

\* a deleteMany that looks at the first clause of the where alone
DeleteManyOfParent(st, model, parentField, where) ==
    [st EXCEPT ![model] = [row \in DOMAIN @ |-> IF row[parentField] = where[parentField] THEN 0 ELSE @[row]]]

\* deleteMany({ model, where }): the rows that hold the value of every clause are gone
DeleteManyWhere(st, model, parentField, where) ==
    [st EXCEPT ![model] = [row \in DOMAIN @ |-> IF row = where THEN 0 ELSE @[row]]]

\* what the database can answer to one deleteMany: the rows are deleted (none, when
\* none matches), or the call fails for a lost connection
RemoveOutcomes(st, operation, parentId, childId, mayFault) ==
    { [error |-> Undefined,
       store |-> DeleteManyWhere(st, RemoveTable(operation), ParentField(AssignOf(operation)),
                                 RemoveWhere(operation, parentId, childId))] }
    \cup (IF mayFault THEN { [error |-> Some(ConnectionLost), store |-> st] } ELSE {})

\* catch (error): every error becomes DATABASE_ERROR
RemoveError(error) == APIError("INTERNAL_SERVER_ERROR", DATABASE_ERROR)

\* a call that has not begun; first and after are the tables when the first call
\* began and when it had returned
RemoveCall(operation, parentId, ids, st) ==
    [ operation |-> operation, parentId |-> parentId, ids |-> ids,
      state |-> "called", pending |-> {}, work |-> Undefined, error |-> Undefined,
      round |-> 1, first |-> st, after |-> Undefined ]

\* if (ids.length === 0) return, else the deleteMany calls start
BeginRemove ==
    /\ pc = "remove"
    /\ calls.state = "called"
    /\ calls' = IF Len(calls.ids) = 0 THEN [calls EXCEPT !.state = "returned"]
                ELSE [calls EXCEPT !.state = "running", !.pending = DOMAIN calls.ids,
                                   !.work = Some(store)]
    /\ UNCHANGED <<pc, sortVars, interpolationVars, abilityVars, sanitizerVars, store, config, faults>>

\* one deleteMany of the call. The first rejection makes Promise.all reject and the
\* call throw: a transaction is rolled back, without one the other deleteMany
\* calls still run
RemoveOne ==
    /\ pc = "remove"
    /\ calls.pending # {}
    /\ \E i \in calls.pending :
       \E answer \in RemoveOutcomes(calls.work.value, calls.operation, calls.parentId,
                                    calls.ids[i], faults < MaxFaults) :
          LET rejects == answer.error.defined
              threw == calls.state = "running" /\ rejects
              last == calls.pending = {i}
              done == calls.state = "running" /\ ~rejects /\ last
          IN  /\ store' = IF calls.state = "threw" /\ config.transaction THEN store
                          ELSE Committed(config, store, answer.store, done)
              /\ faults' = IF rejects THEN faults + 1 ELSE faults
              /\ calls' = [calls EXCEPT
                             !.work = Some(answer.store),
                             !.pending = @ \ {i},
                             !.error = IF threw THEN Some(RemoveError(answer.error.value)) ELSE @,
                             !.state = IF threw THEN "threw" ELSE IF done THEN "returned" ELSE @]
    /\ UNCHANGED <<pc, sortVars, interpolationVars, abilityVars, sanitizerVars, config>>

\* the caller repeats a removal that returned
RepeatRemove ==
    /\ pc = "remove"
    /\ calls.state = "returned" /\ calls.round = 1
    /\ calls' = [calls EXCEPT !.state = "called", !.round = 2, !.after = Some(store)]
    /\ UNCHANGED <<pc, sortVars, interpolationVars, abilityVars, sanitizerVars, store, config, faults>>

InitRemove ==
    /\ pc = "remove"
    /\ \E linked \in SUBSET JunctionTables : store = LinkedStore(linked)
    /\ config \in { cfg \in Configurations :
                       ~cfg.uniquePairs /\ cfg.foreignKeys /\ cfg.dialect = "sqlite" /\ cfg.chunkSize = 1 }
    /\ faults = 0
    /\ \E operation \in RemoveOperations :
       \E parentId \in IdsOfField(ParentField(AssignOf(operation))) :
       \E ids \in IdLists(IdsOfField(ChildField(AssignOf(operation))), MaxIds) :
          calls = RemoveCall(operation, parentId, ids, store)
    /\ permissions = << >> /\ fetched = << >> /\ sorted = << >> /\ reordered = << >>
    /\ rule = Undefined /\ context = Undefined /\ interpolated = Undefined
    /\ ability = Undefined /\ request = Undefined /\ response = Undefined
    /\ validation = Undefined

NextRemove == BeginRemove \/ RemoveOne \/ RepeatRemove

SpecRemove == InitRemove /\ [][NextRemove]_vars

----------------------------------------------------------------------------
(* Properties of the batchRemove operations *)

\* the junction rows the call asks to remove: of its table, with its parent id and
\* one of its child ids
AskedToRemove(table, row) ==
    /\ table = RemoveTable(calls.operation)
    /\ \E i \in DOMAIN calls.ids : row = RemoveWhere(calls.operation, calls.parentId, calls.ids[i])

\* C27: a batchRemove call changes no row of the permission, permission set, user and
\* member tables and no junction row but those of its table with its parent id and
\* one of its child ids; when it has returned none of these is left; it throws for
\* no other reason than a failure of the database, a pair without a row being none;
\* and while the same call is repeated after it returned the tables do not change.
C27_RemovesExactlyThePairs ==
    pc = "remove" =>
        /\ \A model \in { "permission", "permissionSet", "user", "member" } :
              store[model] = calls.first[model]
        /\ \A table \in JunctionTables : \A row \in JunctionRows(table) :
              IF AskedToRemove(table, row)
              THEN (calls.state = "returned" /\ calls.pending = {}) => store[table][row] = 0
              ELSE store[table][row] = calls.first[table][row]
        /\ calls.state = "threw" => faults > 0
        /\ calls.round = 2 => store = calls.after.value

\* the repeated removal of the first user and a user without a row from the first
\* permission has returned: the row of the first user is gone and the row that
\* links the user to the second permission is there
C27_Witness ==
    /\ pc = "remove" /\ calls.round = 2 /\ calls.state = "returned"
    /\ calls.operation = "batchRemoveUsersFromPermission"
    /\ calls.parentId = "p1" /\ calls.ids = << "u1", "u2" >>
    /\ calls.first.userPermission[Pair("permissionId", "p1", "userId", "u1")] = 1
    /\ calls.first.userPermission[Pair("permissionId", "p1", "userId", "u2")] = 0
    /\ store.userPermission[Pair("permissionId", "p1", "userId", "u1")] = 0
    /\ store.userPermission[Pair("permissionId", "p2", "userId", "u1")] = 1


----------------------------------------------------------------------------
(* The operations of the adapter on one database, one after the other and while *)
(* a delete is under way: createPermission, createPermissionSet, updatePermission, *)
(* updatePermissionSet, the batchAssign and batchRemove operations with one    *)
(* child id (one create, one deleteMany), and one delete of a permission or a   *)
(* permission set, step by step without adapter.transaction and at once with it. *)

PERMISSION_NOT_FOUND == <<"Permission", "not", "found">>
PERMISSION_SET_NOT_FOUND == <<"Permission", "set", "not", "found">>

\* the number of operations run beside the delete
MaxOperations == 2

PermissionNames == { "n1", "n2" }

UpdateOperations == { "updatePermission", "updatePermissionSet" }

UpdatedModel(operation) == IF operation = "updatePermission" THEN "permission" ELSE "permissionSet"

NotFound(operation) ==
    IF operation = "updatePermission" THEN APIError("NOT_FOUND", PERMISSION_NOT_FOUND)
    ELSE APIError("NOT_FOUND", PERMISSION_SET_NOT_FOUND)

\* an update that writes the row when there is none
UpdateOrCreate(st, model, id, name) ==
    IF model = "permission"
    THEN [st EXCEPT !.permission = { row \in @ : row.id # id } \cup { [id |-> id, name |-> name] }]
    ELSE [st EXCEPT !.permissionSet = @ \cup { id }]

\* adapter.update({ model, update, where: [{ field: "id", value: id }] }): the row of
\* the id takes the update (of a permission set no column is part of the state); no
\* row is written when there is none
UpdateWhere(st, model, id, name) ==
    IF model = "permission"
    THEN [st EXCEPT !.permission = { IF row.id = id THEN [row EXCEPT !.name = name] ELSE row : row \in @ }]
    ELSE st

\* one step of a cascade on the tables st: the rows of the model are deleted; the
\* delete from the parent table fails in a database that enforces references when
\* a junction row still refers to one of the ids
CascadeStep(st, cfg, operation, ids, model) ==
    IF /\ model = ParentModel(operation) /\ cfg.foreignKeys
       /\ ReferringRows(st, ReferringField(operation), ids) # {}
    THEN [error |-> Some(ForeignKeyViolation(cfg.dialect)), store |-> st]
    ELSE [error |-> Undefined, store |-> DeleteWhere(st, model, ReferringField(operation), ids)]

\* the steps from to to of the cascade, up to the first that fails
RECURSIVE CascadeSteps(_, _, _, _, _, _)
CascadeSteps(st, cfg, operation, ids, from, to) ==
    IF from > to THEN [error |-> Undefined, store |-> st]
    ELSE LET answer == CascadeStep(st, cfg, operation, ids, Cascade(operation)[from])
         IN  IF answer.error.defined THEN answer
             ELSE CascadeSteps(answer.store, cfg, operation, ids, from + 1, to)

\* the delete of calls, and the number of operations run beside it
LifeCall(operation, ids) ==
    [ operation |-> operation, ids |-> ids, state |-> "called", step |-> 0,
      error |-> Undefined, operations |-> 0 ]

\* the result of the last operation run beside the delete: deleted says that the
\* delete had returned when it ran, changed that it changed a table
Result(operation, id, error, fault, changed) ==
    Some([ operation |-> operation, id |-> id, error |-> error, fault |-> fault,
           changed |-> changed, deleted |-> calls.state = "returned" ])

LifeBeginDelete ==
    /\ pc = "life"
    /\ calls.state = "called"
    /\ calls' = [calls EXCEPT !.state = "running", !.step = 1]
    /\ UNCHANGED <<pc, sortVars, interpolationVars, abilityVars, sanitizerVars, store, config, faults>>

\* the next deleteMany / delete of the cascade without adapter.transaction, the whole
\* cascade with it; a failure inside the transaction leaves the tables as they were
LifeDeleteStep ==
    /\ pc = "life"
    /\ calls.state = "running"
    /\ LET ids == { calls.ids[i] : i \in DOMAIN calls.ids }
           last == Len(Cascade(calls.operation))
           to == IF config.transaction THEN last ELSE calls.step
       IN  \E answer \in { CascadeSteps(store, config, calls.operation, ids, calls.step, to) }
                         \cup (IF faults < MaxFaults
                               THEN { [error |-> Some(ConnectionLost), store |-> store] } ELSE {}) :
              IF answer.error.defined
              THEN /\ calls' = [calls EXCEPT !.state = "threw",
                                             !.error = Some(DeleteError(answer.error.value))]
                   /\ store' = store
                   /\ faults' = IF answer.error.value = ConnectionLost THEN faults + 1 ELSE faults
              ELSE /\ calls' = [calls EXCEPT !.step = to + 1,
                                             !.state = IF to = last THEN "returned" ELSE @]
                   /\ store' = answer.store
                   /\ faults' = faults
    /\ UNCHANGED <<pc, sortVars, interpolationVars, abilityVars, sanitizerVars, config>>

\* createPermission(data) / createPermissionSet(data): the row gets a generated id,
\* one that no row has or had
LifeCreate ==
    /\ pc = "life"
    /\ calls.operations < MaxOperations
    /\ \E model \in { "permission", "permissionSet" } :
       \E id \in (IdsOfField(IF model = "permission" THEN "permissionId" ELSE "permissionSetId")
                    \ IdsIn(store, model)) \ { calls.ids[i] : i \in DOMAIN calls.ids } :
          /\ store' = IF model = "permission"
                      THEN [store EXCEPT !.permission = @ \cup { [id |-> id, name |-> "n1"] }]
                      ELSE [store EXCEPT !.permissionSet = @ \cup { id }]
          /\ response' = Result(IF model = "permission" THEN "createPermission" ELSE "createPermissionSet",
                                id, Undefined, FALSE, TRUE)
    /\ calls' = [calls EXCEPT !.operations = @ + 1]
    /\ UNCHANGED <<pc, sortVars, interpolationVars, ability, request, sanitizerVars, config, faults>>

\* updatePermission({ id, name }) / updatePermissionSet({ id, name })
LifeUpdate ==
    /\ pc = "life"
    /\ calls.operations < MaxOperations
    /\ \E operation \in UpdateOperations :
       \E id \in IdsOfField(IF operation = "updatePermission" THEN "permissionId" ELSE "permissionSetId") :
       \E name \in PermissionNames :
       \E fault \in { FALSE } \cup { f \in { TRUE } : faults < MaxFaults } :
          LET found == id \in IdsIn(store, UpdatedModel(operation))
              written == IF fault THEN store ELSE UpdateWhere(store, UpdatedModel(operation), id, name)
              error == IF fault THEN Some(APIError("INTERNAL_SERVER_ERROR", DATABASE_ERROR))
                       ELSE IF ~found THEN Some(NotFound(operation))
                       ELSE Undefined
          IN  /\ store' = written
              /\ faults' = IF fault THEN faults + 1 ELSE faults
              /\ response' = Result(operation, id, error, fault, written # store)
    /\ calls' = [calls EXCEPT !.operations = @ + 1]
    /\ UNCHANGED <<pc, sortVars, interpolationVars, ability, request, sanitizerVars, config>>

\* a batchAssign operation for one child id: one handleIdempotentJunctionAssignment
LifeAssign ==
    /\ pc = "life"
    /\ calls.operations < MaxOperations
    /\ \E operation \in AssignOperations :
       \E parentId \in IdsOfField(ParentField(operation)) :
       \E childId \in IdsOfField(ChildField(operation)) \cap { "p1", "u1", "m1" } :
       \E created \in CreateOutcomes(store, config, AssignTable(operation),
                                     AssignData(operation, parentId, childId), faults < MaxFaults) :
          /\ store' = created.store
          /\ faults' = IF created.fault THEN faults + 1 ELSE faults
          /\ response' = Result(operation, parentId,
                                IF AssignmentRejects(created) THEN Some(AssignError(created.error.value))
                                ELSE Undefined,
                                created.fault, created.store # store)
    /\ calls' = [calls EXCEPT !.operations = @ + 1]
    /\ UNCHANGED <<pc, sortVars, interpolationVars, ability, request, sanitizerVars, config>>

\* a batchRemove operation for one child id: one deleteMany
LifeRemove ==
    /\ pc = "life"
    /\ calls.operations < MaxOperations
    /\ \E operation \in RemoveOperations :
       \E parentId \in IdsOfField(ParentField(AssignOf(operation))) :
       \E childId \in IdsOfField(ChildField(AssignOf(operation))) \cap { "p1", "u1", "m1" } :
       \E answer \in RemoveOutcomes(store, operation, parentId, childId, faults < MaxFaults) :
          /\ store' = answer.store
          /\ faults' = IF answer.error.defined THEN faults + 1 ELSE faults
          /\ response' = Result(operation, parentId,
                                IF answer.error.defined THEN Some(RemoveError(answer.error.value))
                                ELSE Undefined,
                                answer.error.defined, answer.store # store)
    /\ calls' = [calls EXCEPT !.operations = @ + 1]
    /\ UNCHANGED <<pc, sortVars, interpolationVars, ability, request, sanitizerVars, config>>

\* a database with one permission, permission set, user and member and no junction rows
LifeStore == [FreshStore EXCEPT !.permission = { [id |-> "p1", name |-> "n1"] }]

InitLife ==
    /\ pc = "life"
    /\ store = LifeStore
    /\ config \in { cfg \in Configurations :
                       ~cfg.uniquePairs /\ cfg.dialect = "sqlite" /\ cfg.chunkSize = 1 }
    /\ faults = 0
    /\ \E operation \in DeleteOperations :
          calls = LifeCall(operation, IF ParentModel(operation) = "permission" THEN << "p1" >> ELSE << "s1" >>)
    /\ response = Undefined
    /\ permissions = << >> /\ fetched = << >> /\ sorted = << >> /\ reordered = << >>
    /\ rule = Undefined /\ context = Undefined /\ interpolated = Undefined
    /\ ability = Undefined /\ request = Undefined
    /\ validation = Undefined

NextLife == LifeBeginDelete \/ LifeDeleteStep \/ LifeCreate \/ LifeUpdate \/ LifeAssign \/ LifeRemove

SpecLife == InitLife /\ [][NextLife]_vars

----------------------------------------------------------------------------
(* Properties of the life of a permission and a permission set *)

\* the id the delete was called for
DeletedId == calls.ids[1]

\* C28: after a delete of an id has returned no row of the id exists in its table,
\* whatever update, assign and remove operations (and creates, which generate their
\* ids) run afterwards; updatePermission / updatePermissionSet on the id then
\* fails, with NOT_FOUND unless the database call itself failed, and changes no table.
C28_DeletedIsTerminal ==
    (pc = "life" /\ calls.state = "returned") =>
        /\ DeletedId \notin IdsIn(store, ParentModel(calls.operation))
        /\ (/\ response.defined /\ response.value.deleted
            /\ response.value.operation \in UpdateOperations
            /\ UpdatedModel(response.value.operation) = ParentModel(calls.operation)
            /\ response.value.id = DeletedId) =>
              /\ response.value.error.defined
              /\ ~response.value.fault => response.value.error.value = NotFound(response.value.operation)
              /\ ~response.value.changed

\* the first permission was deleted; afterwards a user was assigned to it and it was
\* updated, which failed with NOT_FOUND
C28_Witness ==
    /\ pc = "life" /\ calls.state = "returned" /\ calls.operation = "deletePermission"
    /\ calls.operations = 2
    /\ store.userPermission[Pair("permissionId", "p1", "userId", "u1")] > 0
    /\ response.defined /\ response.value.deleted
    /\ response.value.operation = "updatePermission" /\ response.value.id = "p1"
    /\ response.value.error = Some(APIError("NOT_FOUND", PERMISSION_NOT_FOUND))
    /\ "p1" \notin IdsIn(store, "permission")


\* the junction rows that name a permission or a permission set that does not exist
DanglingRows(st) ==
    { <<table, row>> \in UNION { { <<t, r>> : r \in JunctionRows(t) } : t \in JunctionTables } :
        /\ st[table][row] > 0
        /\ \E f \in JunctionFields(table) \cap { "permissionId", "permissionSetId" } :
              row[f] \notin IdsIn(st, ReferencedModel(f)) }

\* C29 as stated: when no operation is under way, every junction row names a
\* permission that exists and a permission set that exists, whichever creates,
\* assigns, removes and deletes ran, one after the other or interleaved.
C29_NoDanglingJunctionRow ==
    (pc = "life" /\ calls.state \in { "called", "returned", "threw" }) => DanglingRows(store) = {}


----------------------------------------------------------------------------
(* The identity entries of the evaluation context of checkPermissionHandler *)

\* the user, member and resource the request resolves to, whatever its context
ResolvedIdentity(req) ==
    [k \in {"member", "resource", "user"} |->
        CASE k = "member" -> Obj([j \in {"id"} |-> req.memberId])
          [] k = "resource" -> req.resource
          [] k = "user" -> IF req.session.defined THEN req.session.value
                           ELSE Obj([j \in {"id"} |-> req.userId])]

\* C30 as stated: the user, member and resource entries of the evaluation context
\* that checkPermissionHandler hands to createAbilityFromPermissions are those the
\* session, userId, memberId and resource of the request resolve to; they are the
\* same for two requests that differ in the context alone.
C30_IdentityNotReplacedByContext ==
    pc = "response" =>
        \A k \in {"member", "resource", "user"} : context.o[k] = ResolvedIdentity(request)[k]

====
